---- MODULE Spec2Model ----
(***************************************************************************)
(* Popcorn migration support: the loop path enumerator                     *)
(* (EnumerateLoopPaths, LoopPaths.cpp) and the stack map instrumentation   *)
(* pass (InsertStackMaps, InsertStackMaps.cpp).                            *)
(*                                                                         *)
(* A block is a number, an instruction is a pair <<block, index>>, a loop  *)
(* is named by its header block.                                           *)
(***************************************************************************)
EXTENDS Integers, Sequences, FiniteSets, TLC

\* ------------------------------------------------------------------------
\* Bounds of the model
\* ------------------------------------------------------------------------

\* Number of instructions of every block; the last one is the terminator.
BlockLen == 2

\* Largest number of equivalence (migration) points in a function.
MaxEqPoints == 2

\* The small value of the option max-num-paths the inputs are drawn with.
SmallCeiling == 2

\* The large value of the option max-num-paths the inputs are drawn with
\* (the option defaults to 10000; the searches of the reducible shapes
\* below stay under LargeCeiling, so that it acts as the default does).
LargeCeiling == 12

\* "no block", "no loop"
None == 0

\* "no instruction" (a null Instruction pointer)
NoInst == <<None, None>>

\* ------------------------------------------------------------------------
\* Small helpers on sequences and maps
\* ------------------------------------------------------------------------

Range(s) == {s[i] : i \in DOMAIN s}

Min(S) == CHOOSE x \in S : \A y \in S : x <= y

RECURSIVE SortedSeq(_)
\* The elements of a set of numbers in ascending order.
SortedSeq(S) == IF S = {} THEN <<>> ELSE <<Min(S)>> \o SortedSeq(S \ {Min(S)})

\* The empty DenseMap / std::map.
EmptyMap == <<>>

\* m[k] = v, as operator[] followed by an assignment does it.
MapPut(m, k, v) == [x \in (DOMAIN m) \cup {k} |-> IF x = k THEN v ELSE m[x]]

\* operator[] of a map: inserts a value-initialised entry when the key is absent.
MapTouch(m, k, dflt) == IF k \in DOMAIN m THEN m ELSE MapPut(m, k, dflt)

\* ------------------------------------------------------------------------
\* The functions the analysis is run on: control-flow graphs
\* ------------------------------------------------------------------------

\* Each shape is the successor list of every block; block 1 is the entry.
ShapeSimple     == << <<2>>, <<3, 5>>, <<4>>, <<2, 5>>, <<>> >>
ShapeDiamond    == << <<2>>, <<3, 4>>, <<5>>, <<5>>, <<2, 6>>, <<>> >>
ShapeSelfNest   == << <<2>>, <<3>>, <<3, 4>>, <<2, 5>>, <<>> >>
ShapeNestBypass == << <<2>>, <<3, 5>>, <<4>>, <<3, 5>>, <<2, 6>>, <<>> >>
ShapeInnerLatch == << <<2>>, <<3, 4>>, <<3, 2>>, <<>> >>
ShapeIrreducible == << <<2>>, <<3, 4>>, <<4, 5>>, <<3>>, <<2, 6>>, <<>> >>
ShapeTwoExits   == << <<2>>, <<3>>, <<4, 5>>, <<3, 5>>, <<2, 6>>, <<>> >>
ShapeTriple     == << <<2>>, <<3>>, <<4>>, <<4, 5>>, <<3, 6>>, <<2, 7>>, <<>> >>
ShapeGoodThenBad == << <<2>>, <<2, 3>>, <<4, 5>>, <<5, 6>>, <<4>>, <<3, 7>>, <<>> >>
ShapeBadThenGood == << <<2>>, <<3, 4>>, <<4, 5>>, <<3>>, <<2, 6>>, <<6, 7>>, <<>> >>

Shapes == { ShapeSimple, ShapeDiamond, ShapeSelfNest, ShapeNestBypass,
            ShapeInnerLatch, ShapeIrreducible, ShapeTwoExits, ShapeTriple,
            ShapeGoodThenBad, ShapeBadThenGood }

BlocksOf(succ) == 1..Len(succ)

successors(succ, b) == succ[b]

SuccSet(succ, b) == Range(succ[b])

InstructionsOf(succ) == BlocksOf(succ) \X (1..BlockLen)

front(b) == <<b, 1>>

getTerminator(b) == <<b, BlockLen>>

isTerminator(I) == I[2] = BlockLen

getNextNode(I) == <<I[1], I[2] + 1>>

getParent(I) == I[1]

\* ------------------------------------------------------------------------
\* LoopInfo: the loop forest of a control-flow graph (natural loops)
\* ------------------------------------------------------------------------

RECURSIVE ReachAvoid(_, _, _)
\* The blocks reachable from the blocks of S without entering block avoid.
ReachAvoid(succ, S, avoid) ==
  LET T == S \ {avoid}
      N == T \cup {s \in UNION {SuccSet(succ, b) : b \in T} : s # avoid}
  IN IF N = T THEN T ELSE ReachAvoid(succ, N, avoid)

Reachable(succ) == ReachAvoid(succ, {1}, None)

Dominates(succ, d, b) == d = b \/ b \notin ReachAvoid(succ, {1}, d)

\* The sources of the back edges into h.
BackEdgeSources(succ, h) ==
  {t \in Reachable(succ) : h \in SuccSet(succ, t) /\ Dominates(succ, h, t)}

Headers(succ) == {h \in Reachable(succ) : BackEdgeSources(succ, h) # {}}

\* The natural loop of header h.
NaturalLoop(succ, h) ==
  {h} \cup {b \in Reachable(succ) \ {h} :
              ReachAvoid(succ, {b}, h) \cap BackEdgeSources(succ, h) # {}}

LoopInfoOf(succ) ==
  LET hs == Headers(succ)
      blk == [h \in hs |-> NaturalLoop(succ, h)]
      outer(h) == {g \in hs \ {h} : h \in blk[g]}
      par == [h \in hs |->
                IF outer(h) = {} THEN None
                ELSE CHOOSE g \in outer(h) :
                       \A g2 \in outer(h) : Cardinality(blk[g]) <= Cardinality(blk[g2])]
  IN [ Loops     |-> hs,
       Blocks    |-> blk,
       Parent    |-> par,
       Depth     |-> [h \in hs |-> 1 + Cardinality(outer(h))],
       SubLoops  |-> [h \in hs |-> SortedSeq({g \in hs : par[g] = h})],
       TopLevel  |-> SortedSeq({h \in hs : par[h] = None}) ]

contains(li, L, b) == b \in li.Blocks[L]

getHeader(L) == L

getSubLoops(li, L) == li.SubLoops[L]

getLoopDepth(li, L) == li.Depth[L]

\* The innermost loop a block belongs to.
getLoopFor(li, b) ==
  LET in == {L \in li.Loops : b \in li.Blocks[L]}
  IN IF in = {} THEN None
     ELSE CHOOSE L \in in : \A L2 \in in : li.Depth[L] >= li.Depth[L2]

\* The blocks of L with an edge to its header.
getLoopLatches(succ, li, L) ==
  {b \in li.Blocks[L] : getHeader(L) \in SuccSet(succ, b)}

\* The blocks of L with a successor outside L, in block order.
getExitingBlocks(succ, li, L) ==
  SortedSeq({b \in li.Blocks[L] : \E s \in SuccSet(succ, b) : s \notin li.Blocks[L]})

\* ------------------------------------------------------------------------
\* State
\* ------------------------------------------------------------------------

VARIABLES
  F,              \* the function analysed: successor list of every block
  EqPoints,       \* the instructions Popcorn::isEquivalencePoint accepts
  MaxNumPaths,    \* the value of the option max-num-paths
  LI,             \* LoopInfo of F
  Paths,          \* EnumerateLoopPaths::Paths: loop -> vector of LoopPath
  HasSpPath,      \* EnumerateLoopPaths::HasSpPath: loop -> block -> bool
  HasEqPointPath, \* EnumerateLoopPaths::HasEqPointPath: loop -> block -> bool
  TooManyPaths,   \* EnumerateLoopPaths::TooManyPaths
  DetectedCycle,  \* EnumerateLoopPaths::DetectedCycle
  CurLoop,        \* EnumerateLoopPaths::CurLoop
  Latches,        \* EnumerateLoopPaths::Latches
  SubLoopBlocks,  \* EnumerateLoopPaths::SubLoopBlocks
  history,        \* what the last analysis call did (loops in order, reads, searches)
  lastCall        \* the last call made on the analysis and how it ended

pathVars == << F, EqPoints, MaxNumPaths, LI, Paths, HasSpPath, HasEqPointPath,
               TooManyPaths, DetectedCycle, CurLoop, Latches, SubLoopBlocks,
               history, lastCall >>

\* The state of the InsertStackMaps pass and of the module it runs on.
VARIABLES
  Module,     \* the IR: [funcs, hasSMDecl]
  Oracles,    \* LiveValues, DominatorTree, names and slots, -no-live-vals
  Pass,       \* the InsertStackMaps object: callSiteID, numInstrumented
  runs        \* the runs of the pass so far: return value and resulting IR

smVars == << Module, Oracles, Pass, runs >>

\* ------------------------------------------------------------------------
\* LoopPaths.cpp: helpers
\* ------------------------------------------------------------------------

\* Popcorn::isEquivalencePoint, an oracle of the analysis.
isEquivalencePoint(I) == I \in EqPoints

\* The first equivalence point of I's block at or after I, or NoInst.
hasEquivalencePoint(I) ==
  IF I = NoInst THEN NoInst
  ELSE LET hits == {i \in I[2]..BlockLen : isEquivalencePoint(<<I[1], i>>)}
       IN IF hits = {} THEN NoInst ELSE <<I[1], Min(hits)>>

pushIfNotPresent(I, List) == IF I \in Range(List) THEN List ELSE Append(List, I)

PathNode(BB, SubLoopExit) == [Block |-> BB, SubLoopExit |-> SubLoopExit]

\* pathContains with the search starting at the second node.
pathContainsSkipFirst(Path, BB) == \E i \in (DOMAIN Path) \ {1} : Path[i].Block = BB

pathContains(Path, BB) == \E i \in DOMAIN Path : Path[i].Block = BB

\* Nodes.insert(Node): the nodes of a path are kept in path order, each once.
NodesInsert(Nodes, Node) == IF Node \in Range(Nodes) THEN Nodes ELSE Append(Nodes, Node)

RECURSIVE NodesInsertAll(_, _)
\* for(auto Node : NodeVector) Nodes.insert(Node);
NodesInsertAll(Nodes, NodeVector) ==
  IF NodeVector = <<>> THEN Nodes
  ELSE NodesInsertAll(NodesInsert(Nodes, Head(NodeVector)), Tail(NodeVector))

\* LoopPath::LoopPath: the nodes in path order, start, end and the two flags.
LoopPath(NodeVector, Start, End, StartsAtHeader, EndsAtBackedge) ==
  [ Nodes |-> NodesInsertAll(<<>>, NodeVector), Start |-> Start, End |-> End,
    StartsAtHeader |-> StartsAtHeader, EndsAtBackedge |-> EndsAtBackedge ]

\* LoopNest::insert: a loop is appended unless the nest already holds it.
NestInsert(Nest, L) == IF L \in Range(Nest) THEN Nest ELSE Append(Nest, L)

RECURSIVE insertAll(_, _, _)
\* for(auto L : Sub->getSubLoops()) Nest.insert(L);
insertAll(subs, k, Nest) ==
  IF k > Len(subs) THEN Nest ELSE insertAll(subs, k + 1, NestInsert(Nest, subs[k]))

RECURSIVE populateVisit(_, _)
\* The while loop of populateLoopNest over the queue ToVisit.
populateVisit(ToVisit, Nest) ==
  IF Len(ToVisit) = 0 THEN Nest
  ELSE LET subs == getSubLoops(LI, Head(ToVisit))
       IN populateVisit(Tail(ToVisit) \o subs, insertAll(subs, 1, Nest))

populateLoopNest(L) == populateVisit(<<L>>, NestInsert(<<>>, L))

getSubBlocks(L) ==
  UNION { UNION {LI.Blocks[Nested] : Nested \in Range(populateLoopNest(Sub))}
          : Sub \in Range(getSubLoops(LI, L)) }

\* HasXPath[CurLoop][PathBlock] = true for every node outside the sub-loops.
markPath(m, PathNodes, SubBlocks) ==
  LET bs == {PathNodes[i].Block : i \in DOMAIN PathNodes} \ SubBlocks
  IN [x \in (DOMAIN m) \cup bs |-> IF x \in bs THEN TRUE ELSE m[x]]

\* CurPaths.emplace_back(DFSI.PathNodes, DFSI.Start, End, DFSI.StartsAtHeader, B)
\* (recorded keeps the node vectors handed to the constructor during the call).
emplacePath(D, End, EndsAtBackedge) ==
  [D EXCEPT !.Paths[D.CurLoop] =
     Append(@, LoopPath(D.PathNodes, D.Start, End, D.StartsAtHeader, EndsAtBackedge)),
            !.recorded = @ \cup {D.PathNodes},
            !.events = @ \cup {[ev |-> "path", loop |-> D.CurLoop,
                                n |-> Len(D.Paths[D.CurLoop]) + 1]}]

\* A path has ended at the equivalence point At.
EndAtEqPoint(D, At) ==
  [ev |-> "eqEnd", loop |-> D.CurLoop, at |-> At, nodes |-> D.PathNodes]

\* pushIfNotPresent(Start, NewPaths) was called for the path ended at From.
Pushed(D, From, Start) ==
  [ev |-> "push", loop |-> D.CurLoop, from |-> From, start |-> Start]

\* pushIfNotPresent(SLE, NewPaths) was called for the sub-loop exit SLE met
\* from block BB.
PushedExit(D, BB, SLE) ==
  [ev |-> "pushExit", loop |-> D.CurLoop, BB |-> BB, start |-> SLE]

\* The walk over the successors of BB has met Succ, a block of a sub-loop,
\* and getSubLoopSuccessors has returned S; flagged holds the exiting blocks
\* of the sub-loop that its two summaries hold as true.
MeetsSubLoop(D, kind, BB, Succ, S) ==
  LET SubLoop == getLoopFor(LI, Succ)
      Exits == Range(getExitingBlocks(F, LI, SubLoop))
  IN [ev |-> "sub", loop |-> D.CurLoop, kind |-> kind, BB |-> BB, Succ |-> Succ,
      nodes |-> D.PathNodes, start |-> D.Start,
      eqExits |-> S.EqPoint, spExits |-> S.Spanning,
      flagged |-> << {x \in Exits : x \in DOMAIN D.HasEqPointPath[SubLoop]
                                      /\ D.HasEqPointPath[SubLoop][x]},
                     {x \in Exits : x \in DOMAIN D.HasSpPath[SubLoop]
                                      /\ D.HasSpPath[SubLoop][x]} >>]

\* loopDFS has been called at I, an instruction of a sub-loop block, and has
\* added the block to the path as an opaque node.
EntersOpaque(D, I) ==
  [ev |-> "opaque", loop |-> D.CurLoop, I |-> I, nodes |-> D.PathNodes]

\* if(CurPaths.size() > MaxNumPaths) { TooManyPaths = true; return false; }
\* A ceiling test that lets the vector grow to twice max-num-paths and more.
overCeilingLate(D) == Len(D.Paths[D.CurLoop]) > 2 * MaxNumPaths + 2

overCeiling(D) == Len(D.Paths[D.CurLoop]) > MaxNumPaths

failTooManyPaths(D) == [D EXCEPT !.TooManyPaths = TRUE, !.ret = FALSE]

failDetectedCycle(D) == [D EXCEPT !.DetectedCycle = TRUE, !.ret = FALSE]

RECURSIVE readExits(_, _, _, _)
\* The loop of getSubLoopSuccessors over the exiting blocks of SubLoop;
\* R is [EqPoint, Spanning, D].
readExits(SubLoop, ExitBlocks, k, R) ==
  IF k > Len(ExitBlocks) THEN R
  ELSE LET Exit == ExitBlocks[k]
           Term == getTerminator(Exit)
           sp0 == MapTouch(R.D.HasSpPath, SubLoop, EmptyMap)
           sp  == [sp0 EXCEPT ![SubLoop] = MapTouch(@, Exit, FALSE)]
           eq0 == MapTouch(R.D.HasEqPointPath, SubLoop, EmptyMap)
           eq  == [eq0 EXCEPT ![SubLoop] = MapTouch(@, Exit, FALSE)]
           D1  == [R.D EXCEPT !.HasSpPath = sp, !.HasEqPointPath = eq,
                     !.earlyReads = IF SubLoop \in R.D.analyzed THEN @
                                    ELSE @ \cup {<<R.D.CurLoop, SubLoop>>}]
       IN readExits(SubLoop, ExitBlocks, k + 1,
            [ Spanning |-> IF sp[SubLoop][Exit] THEN Append(R.Spanning, Term)
                           ELSE R.Spanning,
              EqPoint  |-> IF eq[SubLoop][Exit] THEN Append(R.EqPoint, Term)
                           ELSE R.EqPoint,
              D |-> D1 ])

getSubLoopSuccessors(Successor, D) ==
  LET SubLoop == getLoopFor(LI, Successor)
  IN readExits(SubLoop, getExitingBlocks(F, LI, SubLoop), 1,
               [EqPoint |-> <<>>, Spanning |-> <<>>, D |-> D])

\* ------------------------------------------------------------------------
\* LoopPaths.cpp: the depth-first search
\*
\* D is the analysis object together with the locals of analyzeLoop that
\* loopDFS takes by reference: DFSI (PathNodes, Start, StartsAtHeader),
\* NewPaths, and ret, the value loopDFS returns.  CurPaths is Paths[CurLoop].
\* ------------------------------------------------------------------------

RECURSIVE forEqPointExitsAtExit(_, _, _, _)
\* forEqPointExits that ends the recorded path at the sub-loop exit instead
\* of at BB's terminator.
forEqPointExitsAtExit(BB, EqPointInsts, j, D) ==
  IF j > Len(EqPointInsts) THEN D
  ELSE LET D1 == emplacePath(D, EqPointInsts[j], FALSE)
       IN IF overCeiling(D1) THEN failTooManyPaths(D1)
          ELSE forEqPointExitsAtExit(BB, EqPointInsts, j + 1,
                 [D1 EXCEPT !.NewPaths = pushIfNotPresent(EqPointInsts[j], @),
                            !.events = @ \cup {PushedExit(D1, BB, EqPointInsts[j])}])

RECURSIVE forEqPointExits(_, _, _, _)
\* for(auto SLE : EqPointInsts): the path is cut at BB's terminator and the
\* sub-loop exit is queued as a new start.
forEqPointExits(BB, EqPointInsts, j, D) ==
  IF j > Len(EqPointInsts) THEN D
  ELSE LET D1 == emplacePath(D, getTerminator(BB), FALSE)
       IN IF overCeiling(D1) THEN failTooManyPaths(D1)
          ELSE forEqPointExits(BB, EqPointInsts, j + 1,
                 [D1 EXCEPT !.NewPaths = pushIfNotPresent(EqPointInsts[j], @),
                            !.events = @ \cup {PushedExit(D1, BB, EqPointInsts[j])}])

RECURSIVE forNewStarts(_, _, _)
\* for(auto SLE : EqPointInsts) pushIfNotPresent(SLE, NewPaths); the block
\* the walk is in is the last node of the path.
forNewStarts(EqPointInsts, j, D) ==
  IF j > Len(EqPointInsts) THEN D
  ELSE forNewStarts(EqPointInsts, j + 1,
         [D EXCEPT !.NewPaths = pushIfNotPresent(EqPointInsts[j], @),
                   !.events = @ \cup {PushedExit(D, D.PathNodes[Len(D.PathNodes)].Block,
                                                    EqPointInsts[j])}])

\* atEqPoint without the update of HasEqPointPath.
atEqPointUnmarked(EqPoint, D) ==
  LET D1 == emplacePath(D, EqPoint, FALSE)
  IN IF overCeiling(D1) THEN failTooManyPaths(D1)
     ELSE IF ~isTerminator(EqPoint)
          THEN [D1 EXCEPT !.NewPaths = pushIfNotPresent(getNextNode(EqPoint), @)]
          ELSE D1

\* atEqPoint ending the path at the terminator of the block instead of the
\* equivalence point.
atEqPointAtTerminator(EqPoint, D) ==
  LET D1 == emplacePath(D, getTerminator(getParent(EqPoint)), FALSE)
  IN IF overCeiling(D1) THEN failTooManyPaths(D1)
     ELSE LET D2 == [D1 EXCEPT !.HasEqPointPath[D1.CurLoop] =
                                  markPath(@, D1.PathNodes, D1.SubLoopBlocks)]
          IN IF ~isTerminator(EqPoint)
             THEN [D2 EXCEPT !.NewPaths = pushIfNotPresent(getNextNode(EqPoint), @)]
             ELSE D2

\* The branch of loopDFS taken when an equivalence point is found, up to
\* the walk over the successors of a terminator.
atEqPoint(EqPoint, D) ==
  LET D1 == emplacePath(D, EqPoint, FALSE)
  IN IF overCeiling(D1) THEN failTooManyPaths(D1)
     ELSE LET D2 == [D1 EXCEPT !.HasEqPointPath[D1.CurLoop] =
                                  markPath(@, D1.PathNodes, D1.SubLoopBlocks),
                               !.events = @ \cup {EndAtEqPoint(D1, EqPoint)}]
          IN IF ~isTerminator(EqPoint)
             THEN [D2 EXCEPT !.NewPaths = pushIfNotPresent(getNextNode(EqPoint), @),
                             !.events = @ \cup {Pushed(D2, EqPoint, getNextNode(EqPoint))}]
             ELSE D2

\* atLatch marking HasSpPath whatever the start of the path.
atLatchAlwaysSpanning(BB, D) ==
  LET D1 == emplacePath(D, getTerminator(BB), TRUE)
  IN IF overCeiling(D1) THEN failTooManyPaths(D1)
     ELSE [D1 EXCEPT !.HasSpPath[D1.CurLoop] =
                        markPath(@, D1.PathNodes, D1.SubLoopBlocks)]

\* The path D.PathNodes has ended at a latch; Before and After are the two
\* summaries of the loop in front of and behind the marking.
EndAtLatch(Before, After) ==
  LET L == Before.CurLoop
  IN [ev |-> "latch", loop |-> L, nodes |-> Before.PathNodes,
      header |-> Before.StartsAtHeader,
      before |-> << Before.HasSpPath[L], Before.HasEqPointPath[L] >>,
      after |-> << After.HasSpPath[L], After.HasEqPointPath[L] >>]

\* atLatch marking the blocks of sub-loops on the path as well.
atLatchMarksOpaque(BB, D) ==
  LET D1 == emplacePath(D, getTerminator(BB), TRUE)
  IN IF overCeiling(D1) THEN failTooManyPaths(D1)
     ELSE LET D2 == IF D1.StartsAtHeader
                    THEN [D1 EXCEPT !.HasSpPath[D1.CurLoop] =
                                       markPath(@, D1.PathNodes, {})]
                    ELSE [D1 EXCEPT !.HasEqPointPath[D1.CurLoop] =
                                       markPath(@, D1.PathNodes, {})]
          IN [D2 EXCEPT !.events = @ \cup {EndAtLatch(D1, D2)}]

\* The branch of loopDFS taken at a latch.
atLatch(BB, D) ==
  LET D1 == emplacePath(D, getTerminator(BB), TRUE)
  IN IF overCeiling(D1) THEN failTooManyPaths(D1)
     ELSE LET D2 == IF D1.StartsAtHeader
                    THEN [D1 EXCEPT !.HasSpPath[D1.CurLoop] =
                                       markPath(@, D1.PathNodes, D1.SubLoopBlocks)]
                    ELSE [D1 EXCEPT !.HasEqPointPath[D1.CurLoop] =
                                       markPath(@, D1.PathNodes, D1.SubLoopBlocks)]
          IN [D2 EXCEPT !.events = @ \cup {EndAtLatch(D1, D2)}]

\* if(!f(...)) return false; K(...): the caller goes on only when f returned true.
Then(D, K(_)) == IF D.ret THEN K(D) ELSE D

\* DFSI.PathNodes.pop_back() on the way out of a successful search.
popBack(D) == IF D.ret THEN [D EXCEPT !.PathNodes = SubSeq(@, 1, Len(@) - 1)] ELSE D

\* skipsSuccessor that skips the latches too after an equivalence point.
skipsSuccessorAndLatches(kind, BB, Succ, D) ==
  CASE kind = "eqTerm" -> \/ ~contains(LI, D.CurLoop, Succ)
                          \/ Succ = getHeader(D.CurLoop)
                          \/ Succ \in D.Latches
    [] kind = "body"   -> ~contains(LI, D.CurLoop, Succ)
    [] kind = "exit"   -> contains(LI, getLoopFor(LI, BB), Succ)
                          \/ ~contains(LI, D.CurLoop, Succ)

\* Whether the walk over the successors of BB skips Succ: "eqTerm" is the
\* walk after an equivalence point that is a terminator, "body" the walk
\* from a block of the loop itself, "exit" the walk from a sub-loop exit.
skipsSuccessor(kind, BB, Succ, D) ==
  CASE kind = "eqTerm" -> ~contains(LI, D.CurLoop, Succ) \/ Succ = getHeader(D.CurLoop)
    [] kind = "body"   -> ~contains(LI, D.CurLoop, Succ)
    [] kind = "exit"   -> contains(LI, getLoopFor(LI, BB), Succ)
                          \/ ~contains(LI, D.CurLoop, Succ)

\* The calls of the recursion of loopDFS.
CallLoopDFS(I) == [fn |-> "loopDFS", I |-> I]
CallSuccessors(kind, BB, k) == [fn |-> "successors", kind |-> kind, BB |-> BB, k |-> k]
CallSpanning(SpanningInsts, j) == [fn |-> "spanning", insts |-> SpanningInsts, j |-> j]

RECURSIVE search(_, _)
\* loopDFS and its loops over successors, which call loopDFS in turn:
\*   "loopDFS"     loopDFS(I, DFSI, CurPaths, NewPaths)
\*   "successors"  for(auto Succ : successors(BB)), from the k-th successor on
\*   "spanning"    for(auto SLE : SpanningInsts) if(!loopDFS(SLE, ...)) return false;
search(c, D) ==
  CASE c.fn = "loopDFS" ->
         LET I == c.I
             BB == getParent(I)
         IN IF BB \notin D.SubLoopBlocks
            THEN IF pathContains(D.PathNodes, BB) THEN failDetectedCycle(D)
                 ELSE LET D1 == [D EXCEPT !.PathNodes = Append(@, PathNode(BB, FALSE))]
                          EqPoint == hasEquivalencePoint(I)
                      IN IF EqPoint # NoInst
                         THEN LET D2 == atEqPoint(EqPoint, D1)
                              IN IF D2.ret /\ isTerminator(EqPoint)
                                 THEN popBack(search(CallSuccessors("eqTerm", BB, 1), D2))
                                 ELSE popBack(D2)
                         ELSE IF BB \in D.Latches THEN popBack(atLatch(BB, D1))
                         ELSE popBack(search(CallSuccessors("body", BB, 1), D1))
            ELSE IF pathContains(D.PathNodes, BB) THEN failDetectedCycle(D)
                 ELSE LET D1 == [D EXCEPT !.PathNodes = Append(@, PathNode(BB, TRUE))]
                      IN popBack(search(CallSuccessors("exit", BB, 1),
                                        [D1 EXCEPT !.events = @ \cup {EntersOpaque(D1, I)}]))
    [] c.fn = "successors" ->
         IF c.k > Len(successors(F, c.BB)) THEN D
         ELSE LET BB == c.BB
                  Succ == successors(F, BB)[c.k]
                  next == CallSuccessors(c.kind, BB, c.k + 1)
              IN IF skipsSuccessor(c.kind, BB, Succ, D) THEN search(next, D)
                 ELSE IF Succ \notin D.SubLoopBlocks
                 THEN IF c.kind = "eqTerm"
                      THEN search(next,
                             [D EXCEPT !.NewPaths = pushIfNotPresent(front(Succ), @),
                                       !.events = @ \cup {Pushed(D, getTerminator(BB),
                                                                 front(Succ))}])
                      ELSE Then(search(CallLoopDFS(front(Succ)), D),
                                LAMBDA X : search(next, X))
                 ELSE LET S == getSubLoopSuccessors(Succ, D)
                          D1 == [S.D EXCEPT !.events =
                                   @ \cup {MeetsSubLoop(S.D, c.kind, BB, Succ, S)}]
                      IN Then(Then(IF c.kind = "eqTerm"
                                   THEN forNewStarts(S.EqPoint, 1, D1)
                                   ELSE forEqPointExits(BB, S.EqPoint, 1, D1),
                                   LAMBDA X : search(CallSpanning(S.Spanning, 1), X)),
                              LAMBDA X : search(next, X))
    [] c.fn = "spanning" ->
         IF c.j > Len(c.insts) THEN D
         ELSE Then(search(CallLoopDFS(c.insts[c.j]), D),
                   LAMBDA X : search(CallSpanning(c.insts, c.j + 1), X))

loopDFS(I, D) == search(CallLoopDFS(I), D)

RECURSIVE drainNewPaths(_)
\* while(!NewPaths.empty()) of analyzeLoop.
drainNewPaths(D) ==
  IF Len(D.NewPaths) = 0 THEN D
  ELSE LET Start == Head(D.NewPaths)
       IN Then(loopDFS(Start, [D EXCEPT !.Start = Start,
                                        !.NewPaths = Tail(@),
                                        !.searched[D.CurLoop] = Append(@, Start)]),
               LAMBDA X : drainNewPaths(X))

\* The blocks of loop L a summary map holds as true.
TrueBlocks(Map, L) == IF L \in DOMAIN Map THEN {b \in DOMAIN Map[L] : Map[L][b]} ELSE {}

\* The summaries of the loops inside L as an analysis of L reads them.
ChildSummaries(L, O) ==
  [ c \in {g \in LI.Loops \ {L} : LI.Blocks[g] \subseteq LI.Blocks[L]} |->
      << TrueBlocks(O.HasSpPath, c), TrueBlocks(O.HasEqPointPath, c) >> ]

\* analyzeLoop without CurPaths.clear().
analyzeLoopUncleared(L, O) ==
  LET Start == front(getHeader(L))
      D0 == [ Paths          |-> O.Paths,
              HasSpPath      |-> MapPut(O.HasSpPath, L, EmptyMap),
              HasEqPointPath |-> MapPut(O.HasEqPointPath, L, EmptyMap),
              TooManyPaths   |-> O.TooManyPaths,
              DetectedCycle  |-> O.DetectedCycle,
              CurLoop        |-> L,
              Latches        |-> getLoopLatches(F, LI, L),
              SubLoopBlocks  |-> getSubBlocks(L),
              analyzed       |-> O.analyzed \ {L},
              basis          |-> MapPut(O.basis, L, ChildSummaries(L, O)),
              prev           |-> O.prev,
              events         |-> O.events,
              earlyReads     |-> O.earlyReads,
              recorded       |-> O.recorded,
              order          |-> Append(O.order, L),
              searched       |-> MapPut(O.searched, L, <<Start>>),
              PathNodes      |-> <<>>,
              Start          |-> Start,
              StartsAtHeader |-> TRUE,
              NewPaths       |-> <<>>,
              ret            |-> TRUE ]
  IN Then(Then(loopDFS(Start, D0),
               LAMBDA X : drainNewPaths([X EXCEPT !.StartsAtHeader = FALSE])),
          LAMBDA X : [X EXCEPT !.analyzed = @ \cup {L}])

\* The entries of a map of the analysis for the loops other than L.
OtherLoops(m, L) == [k \in DOMAIN m \ {L} |-> m[k]]

\* analyzeLoop(L, ...) has returned true; O is the object at the call and X
\* at the return.
Analysed(L, O, X) ==
  [ev |-> "analysed", loop |-> L,
   before |-> << OtherLoops(O.Paths, L), OtherLoops(O.HasSpPath, L),
                 OtherLoops(O.HasEqPointPath, L) >>,
   after |-> << OtherLoops(X.Paths, L), OtherLoops(X.HasSpPath, L),
                OtherLoops(X.HasEqPointPath, L) >>]

\* analyzeLoop(L, Paths[L]); O is the analysis object.
analyzeLoop(L, O) ==
  LET Start == front(getHeader(L))
      D0 == [ Paths          |-> [O.Paths EXCEPT ![L] = <<>>],
              HasSpPath      |-> MapPut(O.HasSpPath, L, EmptyMap),
              HasEqPointPath |-> MapPut(O.HasEqPointPath, L, EmptyMap),
              TooManyPaths   |-> O.TooManyPaths,
              DetectedCycle  |-> O.DetectedCycle,
              CurLoop        |-> L,
              Latches        |-> getLoopLatches(F, LI, L),
              SubLoopBlocks  |-> getSubBlocks(L),
              analyzed       |-> O.analyzed \ {L},
              basis          |-> MapPut(O.basis, L, ChildSummaries(L, O)),
              prev           |-> O.prev,
              events         |-> O.events,
              earlyReads     |-> O.earlyReads,
              recorded       |-> O.recorded,
              order          |-> Append(O.order, L),
              searched       |-> MapPut(O.searched, L, <<Start>>),
              PathNodes      |-> <<>>,
              Start          |-> Start,
              StartsAtHeader |-> TRUE,
              NewPaths       |-> <<>>,
              ret            |-> TRUE ]
  IN Then(Then(loopDFS(Start, D0),
               LAMBDA X : drainNewPaths([X EXCEPT !.StartsAtHeader = FALSE])),
          LAMBDA X : [X EXCEPT !.analyzed = @ \cup {L},
                               !.events = @ \cup {Analysed(L, O, X)}])

\* EnumerateLoopPaths::reset
reset(O) == [O EXCEPT !.Paths = EmptyMap, !.HasSpPath = EmptyMap,
                      !.HasEqPointPath = EmptyMap, !.analyzed = {},
                      !.basis = EmptyMap]

\* EnumerateLoopPaths::analysisFailed
analysisFailed(O) == O.TooManyPaths \/ O.DetectedCycle

\* EnumerateLoopPaths::hasPaths
hasPaths(P, L) == L \in DOMAIN P

RECURSIVE analyzeNest(_, _, _)
\* for(auto L : Nest) { CurPaths = Paths[L]; if(!analyzeLoop(L, CurPaths)) break; }
analyzeNest(Nest, k, O) ==
  IF k > Len(Nest) THEN O
  ELSE Then(analyzeLoop(Nest[k], [O EXCEPT !.Paths = MapTouch(@, Nest[k], <<>>)]),
            LAMBDA X : analyzeNest(Nest, k + 1, X))

\* if(analysisFailed()) break;
UnlessFailed(O, K(_)) == IF analysisFailed(O) THEN O ELSE K(O)

RECURSIVE analyzeNests(_, _, _)
\* for(auto Nest : Nests) { ...; if(analysisFailed()) break; }
analyzeNests(Nests, n, O) ==
  IF n > Len(Nests) THEN O
  ELSE UnlessFailed(analyzeNest(Nests[n], 1, O),
                    LAMBDA X : analyzeNests(Nests, n + 1, X))

\* The loop nests of the function, one per top-level loop.
discoverNests ==
  [i \in 1..Len(LI.TopLevel) |-> populateLoopNest(LI.TopLevel[i])]

\* The results of a loop before a call, for a call that replaces none.
NoResults == [known |-> FALSE, Paths |-> <<>>, HasSpPath |-> EmptyMap,
              HasEqPointPath |-> EmptyMap]

\* The results of loop L in O; known says that L has been analysed and that
\* the summaries of the loops inside it are those its analysis has read.
ResultsOf(L, O) ==
  [ known |-> /\ hasPaths(O.Paths, L)
              /\ L \in O.analyzed
              /\ L \in DOMAIN O.basis
              /\ O.basis[L] = ChildSummaries(L, O),
    Paths |-> IF hasPaths(O.Paths, L) THEN O.Paths[L] ELSE <<>>,
    HasSpPath |-> IF L \in DOMAIN O.HasSpPath THEN O.HasSpPath[L] ELSE EmptyMap,
    HasEqPointPath |-> IF L \in DOMAIN O.HasEqPointPath THEN O.HasEqPointPath[L]
                       ELSE EmptyMap ]

\* The fields of the analysis object as a record.
Object ==
  [ Paths |-> Paths, HasSpPath |-> HasSpPath, HasEqPointPath |-> HasEqPointPath,
    TooManyPaths |-> TooManyPaths, DetectedCycle |-> DetectedCycle,
    CurLoop |-> CurLoop, Latches |-> Latches, SubLoopBlocks |-> SubLoopBlocks,
    analyzed |-> history.analyzed, basis |-> history.basis, prev |-> NoResults,
    events |-> {},
    earlyReads |-> {}, recorded |-> {},
    order |-> <<>>, searched |-> EmptyMap, ret |-> TRUE ]

\* runOnFunction without the reset() after TooManyPaths.
keepOnTooManyPaths(O) == O

\* runOnFunction without the reset() after DetectedCycle.
keepOnDetectedCycle(O) == O

\* rerunOnLoop without the reset() after a failed analyzeLoop.
keepAfterFailedRerun(O) == O

\* if(TooManyPaths) reset();
bailIfTooManyPaths(O) == IF O.TooManyPaths THEN reset(O) ELSE O

\* if(DetectedCycle) reset();
bailIfDetectedCycle(O) == IF O.DetectedCycle THEN reset(O) ELSE O

runOnFunction(O) ==
  bailIfDetectedCycle(bailIfTooManyPaths(
    analyzeNests(discoverNests, 1,
      [reset(O) EXCEPT !.TooManyPaths = FALSE, !.DetectedCycle = FALSE])))

\* if(!analyzeLoop(L, CurPaths)) reset();
resetUnlessDone(O) == IF ~O.ret THEN reset(O) ELSE O

rerunOnLoop(L, O) ==
  resetUnlessDone(analyzeLoop(L, [O EXCEPT !.Paths = MapTouch(@, L, <<>>),
                                           !.prev = ResultsOf(L, O)]))

\* ------------------------------------------------------------------------
\* The loop path enumerator as a state machine
\* ------------------------------------------------------------------------

RECURSIVE SubsetsUpTo(_, _)
\* The subsets of X with at most k elements.
SubsetsUpTo(X, k) ==
  IF k = 0 THEN {{}}
  ELSE LET P == SubsetsUpTo(X, k - 1) IN P \cup {s \cup {x} : s \in P, x \in X}

\* The instructions of the blocks that belong to some loop.
LoopInstructions(succ, li) ==
  (UNION {li.Blocks[L] : L \in li.Loops}) \X (1..BlockLen)

NoCall ==
  [op |-> "none", L |-> None, BB |-> None, outcome |-> "ok", paths |-> <<>>,
   value |-> FALSE]

\* The shapes the queries are exercised on.
QueryShapes == { ShapeSimple, ShapeSelfNest, ShapeIrreducible }

\* No module is under instrumentation.
NoModule ==
  /\ Module = [funcs |-> <<>>, hasSMDecl |-> FALSE]
  /\ Oracles = [Live |-> <<>>, Dominates |-> <<>>, Name |-> <<>>, Slot |-> <<>>,
                NoLiveVals |-> FALSE, Layout |-> <<>>, Buckets |-> <<>>]
  /\ Pass = [callSiteID |-> 0, numInstrumented |-> 0]
  /\ runs = <<>>

\* The analysis object after construction.
FreshAnalysis ==
  /\ LI = LoopInfoOf(F)
  /\ Paths = EmptyMap
  /\ HasSpPath = EmptyMap
  /\ HasEqPointPath = EmptyMap
  /\ TooManyPaths = FALSE
  /\ DetectedCycle = FALSE
  /\ CurLoop = None
  /\ Latches = {}
  /\ SubLoopBlocks = {}
  /\ history = [call |-> "none", ok |-> TRUE, analyzed |-> {},
                basis |-> EmptyMap, prev |-> NoResults, events |-> {},
                earlyReads |-> {},
                recorded |-> {},
                order |-> <<>>, searched |-> EmptyMap]
  /\ lastCall = NoCall

\* The state after construction, for a function drawn from shapes.
InitFrom(shapes) ==
  /\ F \in shapes
  /\ EqPoints \in SubsetsUpTo(LoopInstructions(F, LoopInfoOf(F)), MaxEqPoints)
  /\ MaxNumPaths \in {SmallCeiling, LargeCeiling}
  /\ FreshAnalysis
  /\ NoModule

InitPaths == InitFrom(Shapes)

InitQueries == InitFrom(QueryShapes)

\* The analysis object after the call named call that returned O.
Becomes(call, O) ==
  /\ Paths' = O.Paths
  /\ HasSpPath' = O.HasSpPath
  /\ HasEqPointPath' = O.HasEqPointPath
  /\ TooManyPaths' = O.TooManyPaths
  /\ DetectedCycle' = O.DetectedCycle
  /\ CurLoop' = O.CurLoop
  /\ Latches' = O.Latches
  /\ SubLoopBlocks' = O.SubLoopBlocks
  /\ history' = [call |-> call, ok |-> O.ret, analyzed |-> O.analyzed,
                 basis |-> O.basis, prev |-> O.prev, events |-> O.events,
                 earlyReads |-> O.earlyReads, recorded |-> O.recorded,
                 order |-> O.order,
                 searched |-> O.searched]

RunOnFunction ==
  /\ Becomes("runOnFunction", runOnFunction(Object))
  /\ lastCall' = [NoCall EXCEPT !.op = "runOnFunction"]
  /\ UNCHANGED << F, EqPoints, MaxNumPaths, LI >>
  /\ UNCHANGED smVars

RerunOnLoop ==
  \E L \in LI.Loops :
    /\ history.call # "none"
    /\ Becomes("rerunOnLoop", rerunOnLoop(L, Object))
    /\ lastCall' = [NoCall EXCEPT !.op = "rerunOnLoop", !.L = L]
    /\ UNCHANGED << F, EqPoints, MaxNumPaths, LI >>
    /\ UNCHANGED smVars

\* ------------------------------------------------------------------------
\* LoopPaths.cpp: the queries
\* ------------------------------------------------------------------------

\* LoopPath::isSpanningPath
isSpanningPath(P) == P.StartsAtHeader /\ P.EndsAtBackedge

\* LoopPath::isEqPointPath
isEqPointPath(P) == ~P.EndsAtBackedge

\* LoopPath::contains
pathHasBlock(P, BB) == \E i \in DOMAIN P.Nodes : P.Nodes[i].Block = BB

\* The paths of a vector that Test accepts, in the order of the vector.
SelectPaths(Ps, Test(_)) == SelectSeq(Ps, Test)

\* The result of a query whose assertion fails.
Asserts(op, L, BB) == [NoCall EXCEPT !.op = op, !.L = L, !.BB = BB, !.outcome = "assert"]

\* The result of a query that returns a list of paths.
Returns(op, L, BB, Ps) == [NoCall EXCEPT !.op = op, !.L = L, !.BB = BB, !.paths = Ps]

getPaths(L) ==
  IF ~hasPaths(Paths, L) THEN Asserts("getPaths", L, None)
  ELSE Returns("getPaths", L, None, Paths[L])

getBackedgePaths(L) ==
  IF ~hasPaths(Paths, L) THEN Asserts("getBackedgePaths", L, None)
  ELSE Returns("getBackedgePaths", L, None,
               SelectPaths(Paths[L], LAMBDA P : P.EndsAtBackedge))

getSpanningPaths(L) ==
  IF ~hasPaths(Paths, L) THEN Asserts("getSpanningPaths", L, None)
  ELSE Returns("getSpanningPaths", L, None, SelectPaths(Paths[L], isSpanningPath))

getEqPointPaths(L) ==
  IF ~hasPaths(Paths, L) THEN Asserts("getEqPointPaths", L, None)
  ELSE Returns("getEqPointPaths", L, None, SelectPaths(Paths[L], isEqPointPath))

getPathsThroughBlock(L, BB) ==
  IF ~hasPaths(Paths, L) \/ ~contains(LI, L, BB)
  THEN Asserts("getPathsThroughBlock", L, BB)
  ELSE Returns("getPathsThroughBlock", L, BB,
               SelectPaths(Paths[L], LAMBDA P : pathHasBlock(P, BB)))

\* Map.find(L)->second.find(BB)->second: the stored value, or the outcomes
\* of dereferencing end() when an entry is missing.
lookupSummary(op, Map, L, BB) ==
  IF ~hasPaths(Paths, L) \/ ~contains(LI, L, BB) THEN {Asserts(op, L, BB)}
  ELSE IF L \in DOMAIN Map /\ BB \in DOMAIN Map[L]
  THEN {[NoCall EXCEPT !.op = op, !.L = L, !.BB = BB, !.value = Map[L][BB]]}
  ELSE {[NoCall EXCEPT !.op = op, !.L = L, !.BB = BB, !.outcome = "undefined",
                       !.value = v] : v \in BOOLEAN}

spanningPathThroughBlock(L, BB) ==
  lookupSummary("spanningPathThroughBlock", HasSpPath, L, BB)

eqPointPathThroughBlock(L, BB) ==
  lookupSummary("eqPointPathThroughBlock", HasEqPointPath, L, BB)

analysisVars == << F, EqPoints, MaxNumPaths, LI, Paths, HasSpPath, HasEqPointPath,
                   TooManyPaths, DetectedCycle, CurLoop, Latches, SubLoopBlocks,
                   history, smVars >>

GetPaths ==
  \E L \in LI.Loops :
    /\ lastCall' = getPaths(L)
    /\ UNCHANGED analysisVars

GetBackedgePaths ==
  \E L \in LI.Loops :
    /\ lastCall' = getBackedgePaths(L)
    /\ UNCHANGED analysisVars

GetSpanningPaths ==
  \E L \in LI.Loops :
    /\ lastCall' = getSpanningPaths(L)
    /\ UNCHANGED analysisVars

GetEqPointPaths ==
  \E L \in LI.Loops :
    /\ lastCall' = getEqPointPaths(L)
    /\ UNCHANGED analysisVars

GetPathsThroughBlock ==
  \E L \in LI.Loops, BB \in BlocksOf(F) :
    /\ lastCall' = getPathsThroughBlock(L, BB)
    /\ UNCHANGED analysisVars

SpanningPathThroughBlock ==
  \E L \in LI.Loops, BB \in BlocksOf(F) :
    /\ lastCall' \in spanningPathThroughBlock(L, BB)
    /\ UNCHANGED analysisVars

EqPointPathThroughBlock ==
  \E L \in LI.Loops, BB \in BlocksOf(F) :
    /\ lastCall' \in eqPointPathThroughBlock(L, BB)
    /\ UNCHANGED analysisVars

\* ------------------------------------------------------------------------
\* InsertStackMaps.cpp: the module the pass runs on
\*
\* A module is a list of functions, a function a list of blocks, a block a
\* list of instructions.  An instruction is
\*   [op, id, site, flags, vals]
\* where id names the instruction within its function (0 for a stack map
\* the pass has inserted), site and flags are the first two arguments of a
\* stack map call and vals its live values, or the operands of any other
\* instruction.  A value is [kind, n]: the result of instruction n
\* ("inst"), argument n ("arg") or a constant ("const").
\* ------------------------------------------------------------------------

InstValue(n) == [kind |-> "inst", n |-> n]

ArgValue(n) == [kind |-> "arg", n |-> n]

Inst(op, id, vals) == [op |-> op, id |-> id, site |-> 0, flags |-> 0, vals |-> vals]

\* A call of llvm.experimental.pcn.stackmap(i64 site, i32 flags, ...).
StackMapCall(site, flags, live) ==
  [op |-> "stackmap", id |-> 0, site |-> site, flags |-> flags, vals |-> live]

\* CallInst whose callee is named SMName.
isStackMapCall(I) == I.op = "stackmap"

\* Popcorn::isCallSite: a call or an invoke that is no intrinsic.
isCallSite(I) == I.op \in {"call", "invoke"}

\* isInvoke that takes no call site for an invoke.
isInvokeNever(I) == FALSE

\* CallSite::isInvoke
isInvoke(I) == I.op = "invoke"

\* The lambda hidesValues of getHiddenVals.
hidesValues(I) ==
  I.op \in {"extractelement", "insertelement", "extractvalue", "insertvalue",
            "getelementptr", "bitcast"}

\* std::string::compare(a, b) < 0 on names given as lists of character codes.
RECURSIVE NameLess(_, _)
NameLess(a, b) ==
  IF b = <<>> THEN FALSE
  ELSE IF a = <<>> THEN TRUE
  ELSE IF Head(a) # Head(b) THEN Head(a) < Head(b)
  ELSE NameLess(Tail(a), Tail(b))

\* The name of a value in function f (<<>> when it has none).
getName(f, v) == Oracles.Name[f][v]

hasName(f, v) == getName(f, v) # <<>>

\* ModuleSlotTracker::getLocalSlot
getLocalSlot(f, v) == Oracles.Slot[f][v]

\* ValueComp that takes two named values to be equivalent.
ValueCompNamedAlike(f, a, b) ==
  IF hasName(f, a) /\ hasName(f, b) THEN FALSE
  ELSE IF hasName(f, a) THEN TRUE
  ELSE IF hasName(f, b) THEN FALSE
  ELSE getLocalSlot(f, a) < getLocalSlot(f, b)

\* ValueComp::operator()
ValueComp(f, a, b) ==
  IF hasName(f, a) /\ hasName(f, b) THEN NameLess(getName(f, a), getName(f, b))
  ELSE IF hasName(f, a) THEN TRUE
  ELSE IF hasName(f, b) THEN FALSE
  ELSE getLocalSlot(f, a) < getLocalSlot(f, b)

\* An insert that keeps the values in the order of their insertion.
sortedInsertAtEnd(f, S, v) ==
  IF \E i \in DOMAIN S : S[i] = v THEN S ELSE Append(S, v)

\* std::set<const Value *, ValueComp>::insert on the set kept as its sorted
\* list: a value equivalent to one of the set is not inserted.
sortedInsert(f, S, v) ==
  IF \E i \in DOMAIN S : ~ValueComp(f, S[i], v) /\ ~ValueComp(f, v, S[i]) THEN S
  ELSE LET k == Cardinality({i \in DOMAIN S : ValueComp(f, S[i], v)})
       IN SubSeq(S, 1, k) \o <<v>> \o SubSeq(S, k + 1, Len(S))

RECURSIVE sortedInsertAll(_, _, _)
\* The values of the list vs inserted one after the other.
sortedInsertAll(f, S, vs) ==
  IF vs = <<>> THEN S ELSE sortedInsertAll(f, sortedInsert(f, S, Head(vs)), Tail(vs))

\* The orders in which the values of V can lie in memory, lowest address
\* first: an allocation can produce any of them.
AddressOrders(V) ==
  {s \in [1..Cardinality(V) -> V] : \A i, j \in 1..Cardinality(V) : s[i] = s[j] => i = j}

\* The order of a std::set<const Value *>: by address, which is whatever the
\* allocation has produced (Oracles.Layout, lowest address first).
AddressBefore(f, x, y) ==
  LET AddressOf(v) == CHOOSE i \in DOMAIN Oracles.Layout[f] : Oracles.Layout[f][i] = v
  IN AddressOf(x) < AddressOf(y)

RECURSIVE InAddressOrder(_, _)
\* The order in which a std::set<const Value *> of function f is walked.
InAddressOrder(f, V) ==
  IF V = {} THEN <<>>
  ELSE LET v == CHOOSE x \in V : \A y \in V \ {x} : AddressBefore(f, x, y)
       IN <<v>> \o InAddressOrder(f, V \ {v})

\* ------------------------------------------------------------------------
\* InsertStackMaps.cpp: the pass
\* ------------------------------------------------------------------------

\* addSMDeclaration: whether the declaration had to be added.
addSMDeclaration(M) == ~M.hasSMDecl

RECURSIVE eraseStackMapsAndNext(_, _)
\* eraseStackMaps that erases the instruction behind a stack map call too.
eraseStackMapsAndNext(bb, i) ==
  IF i > Len(bb) THEN bb
  ELSE IF isStackMapCall(bb[i])
  THEN eraseStackMapsAndNext(SubSeq(bb, 1, i - 1) \o SubSeq(bb, i + 2, Len(bb)), 1 + 1)
  ELSE eraseStackMapsAndNext(bb, i + 1)

RECURSIVE eraseStackMaps(_, _)
\* The loop of removeOldStackmaps over one block, the iterator i standing
\* at index i: after an erase the iterator is set to bb->begin() and then
\* incremented by the for loop.
eraseStackMaps(bb, i) ==
  IF i > Len(bb) THEN bb
  ELSE IF isStackMapCall(bb[i])
  THEN eraseStackMaps(SubSeq(bb, 1, i - 1) \o SubSeq(bb, i + 1, Len(bb)), 1 + 1)
  ELSE eraseStackMaps(bb, i + 1)

\* removeOldStackmaps: the functions after the sweep.
removeOldStackmaps(funcs) ==
  [f \in DOMAIN funcs |->
     [funcs[f] EXCEPT !.blocks =
        [b \in DOMAIN funcs[f].blocks |-> eraseStackMaps(funcs[f].blocks[b], 1)]]]

\* The instructions of a function in the order of inst_iterator.
RECURSIVE Flatten(_)
Flatten(blocks) == IF blocks = <<>> THEN <<>> ELSE Head(blocks) \o Flatten(Tail(blocks))

\* getHiddenVals: for every instruction that hides values, its operands
\* that are instructions (inst) and arguments (args).
getHiddenVals(fn) ==
  LET insts == Flatten(fn.blocks)
      hiding == {k \in DOMAIN insts : hidesValues(insts[k])}
  IN [ inst |-> {<<insts[k].id, SelectSeq(insts[k].vals, LAMBDA v : v.kind = "inst")>>
                   : k \in hiding},
       args |-> {<<insts[k].id, SelectSeq(insts[k].vals, LAMBDA v : v.kind = "arg")>>
                   : k \in hiding} ]

RECURSIVE ConcatHidden(_, _)
\* The vectors the hiding map H holds for the keys, one behind the other; an
\* instruction that hides nothing has an empty one.
ConcatHidden(H, keys) ==
  LET VecOf(k) == IF \E h \in H : h[1] = k THEN (CHOOSE h \in H : h[1] = k)[2] ELSE <<>>
  IN IF keys = <<>> THEN <<>> ELSE VecOf(Head(keys)) \o ConcatHidden(H, Tail(keys))

\* for(const auto &pair : H) if(Sel(pair.first)) for(auto &inst : pair.second):
\* the pairs of the DenseMap in the order of its buckets (Oracles.Buckets),
\* the values of a pair in the order of the operands.
HiddenOf(f, H, Sel(_)) == ConcatHidden(H, SelectSeq(Oracles.Buckets[f], Sel))

\* The live values recorded for the call I of function f: the live set, the
\* instructions hidden by a live instruction that dominates the call, and
\* the arguments hidden by a live instruction.
liveValuesAt(f, I, hidden) ==
  LET live == Oracles.Live[f][I.id]
      byInst == HiddenOf(f, hidden.inst,
                  LAMBDA k : <<k, I.id>> \in Oracles.Dominates[f] /\ InstValue(k) \in live)
      byArg == HiddenOf(f, hidden.args, LAMBDA k : InstValue(k) \in live)
  IN sortedInsertAll(f,
       sortedInsertAll(f,
         sortedInsertAll(f, <<>>, InAddressOrder(f, live)),
         byInst),
       byArg)

RECURSIVE instrumentBlockBefore(_, _, _, _, _)
\* instrumentBlock with the stack map call created in front of the call.
instrumentBlockBefore(f, bb, i, hidden, P) ==
  IF i > Len(bb) THEN [bb |-> bb, P |-> P]
  ELSE IF ~isCallSite(bb[i]) \/ isInvoke(bb[i])
  THEN instrumentBlockBefore(f, bb, i + 1, hidden, P)
  ELSE LET live == IF Oracles.NoLiveVals THEN <<>> ELSE liveValuesAt(f, bb[i], hidden)
           sm == StackMapCall(P.callSiteID, 0, live)
       IN instrumentBlockBefore(f,
            SubSeq(bb, 1, i - 1) \o <<sm>> \o SubSeq(bb, i, Len(bb)),
            i + 2, hidden,
            [P EXCEPT !.callSiteID = @ + 1, !.numInstrumented = @ + 1])

RECURSIVE instrumentBlock(_, _, _, _, _)
\* for(i = b->begin(); i != b->end(); i++) of runOnModule over block bb of
\* function f; P is the pass object.  The result is [bb, P].
instrumentBlock(f, bb, i, hidden, P) ==
  IF i > Len(bb) THEN [bb |-> bb, P |-> P]
  ELSE IF ~isCallSite(bb[i]) \/ isInvoke(bb[i])
  THEN instrumentBlock(f, bb, i + 1, hidden, P)
  ELSE LET live == IF Oracles.NoLiveVals THEN <<>> ELSE liveValuesAt(f, bb[i], hidden)
           sm == StackMapCall(P.callSiteID, 0, live)
       IN instrumentBlock(f,
            SubSeq(bb, 1, i) \o <<sm>> \o SubSeq(bb, i + 1, Len(bb)),
            i + 1, hidden,
            [P EXCEPT !.callSiteID = @ + 1, !.numInstrumented = @ + 1])

RECURSIVE instrumentBlocks(_, _, _, _, _)
\* for(b = f->begin(); b != f->end(); b++): the blocks from the b-th on.
instrumentBlocks(f, blocks, b, hidden, P) ==
  IF b > Len(blocks) THEN [blocks |-> blocks, P |-> P]
  ELSE LET R == instrumentBlock(f, blocks[b], 1, hidden, P)
       IN instrumentBlocks(f, [blocks EXCEPT ![b] = R.bb], b + 1, hidden, R.P)

RECURSIVE instrumentFunctionsNoReset(_, _, _)
\* instrumentFunctions without callSiteID = 0 at the end of a function.
instrumentFunctionsNoReset(funcs, f, P) ==
  IF f > Len(funcs) THEN [funcs |-> funcs, P |-> P]
  ELSE IF funcs[f].blocks = <<>> THEN instrumentFunctionsNoReset(funcs, f + 1, P)
  ELSE LET R == instrumentBlocks(f, funcs[f].blocks, 1, getHiddenVals(funcs[f]), P)
       IN instrumentFunctionsNoReset([funcs EXCEPT ![f].blocks = R.blocks], f + 1, R.P)

RECURSIVE instrumentFunctions(_, _, _)
\* for(f = M.begin(); f != M.end(); f++): the functions from the f-th on.
instrumentFunctions(funcs, f, P) ==
  IF f > Len(funcs) THEN [funcs |-> funcs, P |-> P]
  ELSE IF funcs[f].blocks = <<>> THEN instrumentFunctions(funcs, f + 1, P)
  ELSE LET R == instrumentBlocks(f, funcs[f].blocks, 1, getHiddenVals(funcs[f]), P)
       IN instrumentFunctions([funcs EXCEPT ![f].blocks = R.blocks], f + 1,
                              [R.P EXCEPT !.callSiteID = 0])

\* runOnModule: the module and the pass object after the run, and the value
\* returned.
runOnModule(M, P) ==
  LET swept == removeOldStackmaps(M.funcs)
      R == instrumentFunctions(swept, 1, P)
  IN [ Module   |-> [funcs |-> R.funcs, hasSMDecl |-> TRUE],
       Pass     |-> R.P,
       swept    |-> swept,
       modified |-> addSMDeclaration(M) \/ swept # M.funcs \/ R.P.numInstrumented > 0 ]

\* ------------------------------------------------------------------------
\* The modules the pass is run on
\* ------------------------------------------------------------------------

\* Largest number of instructions of a module besides the terminators.
MaxInsts == 3

\* Largest number of runs of the pass on a module.
MaxRuns == 2

\* The number of blocks of each function of a module; 0 is a declaration.
ModuleLayouts == { <<1>>, <<2>>, <<0, 1, 1>> }

BodyOps == {"call", "stackmap", "add"}

TerminatorOps == {"br", "invoke"}

RECURSIVE SumLen(_)
SumLen(bs) == IF bs = <<>> THEN 0 ELSE Len(Head(bs)) + SumLen(Tail(bs))

RECURSIVE BlockBodies(_, _)
\* The lists of k block bodies with at most budget instructions in all.
BlockBodies(k, budget) ==
  IF k = 0 THEN {<<>>}
  ELSE UNION { { <<body>> \o rest : rest \in BlockBodies(k - 1, budget - Len(body)) }
               : body \in UNION {[1..n -> BodyOps] : n \in 0..budget} }

\* The number of blocks of a layout.
RECURSIVE Sum(_)
Sum(ns) == IF ns = <<>> THEN 0 ELSE Head(ns) + Sum(Tail(ns))

\* The functions of a layout: function f takes its blocks from the list of
\* all block bodies, block b ends with terms[b], and the instructions of a
\* function are numbered in program order.
FunctionsOf(layout, bodies, terms) ==
  [f \in DOMAIN layout |->
     LET first == Sum(SubSeq(layout, 1, f - 1))
         mine == SubSeq(bodies, first + 1, first + layout[f])
         before(b) == SumLen(SubSeq(mine, 1, b - 1)) + (b - 1)
     IN [ blocks |-> [b \in 1..layout[f] |->
                        [i \in 1..Len(mine[b]) |-> Inst(mine[b][i], before(b) + i, <<>>)]
                        \o << Inst(terms[first + b], before(b) + Len(mine[b]) + 1, <<>>) >>] ]]

\* The modules the pass is run on.
InputModules ==
  UNION { { FunctionsOf(layout, bodies, terms)
            : bodies \in BlockBodies(Sum(layout), MaxInsts),
              terms \in [1..Sum(layout) -> TerminatorOps] }
          : layout \in ModuleLayouts }

\* The values a block defines in front of its instruction with the given id.
DefinedBefore(bb, id) ==
  {InstValue(bb[j].id) : j \in {k \in DOMAIN bb : bb[k].op = "add" /\ bb[k].id < id}}

\* The address orders of the modules of straight-line functions: for every
\* function any order of the values that can be live, which are the results
\* of its add instructions.
StraightLineLayouts(funcs) ==
  LET LiveCandidates(f) ==
        {InstValue(Flatten(funcs[f].blocks)[k].id)
           : k \in {i \in DOMAIN Flatten(funcs[f].blocks) : Flatten(funcs[f].blocks)[i].op = "add"}}
  IN {l \in [DOMAIN funcs -> UNION {AddressOrders(LiveCandidates(f)) : f \in DOMAIN funcs}] :
        \A f \in DOMAIN funcs : l[f] \in AddressOrders(LiveCandidates(f))}

\* Oracles of a module of straight-line functions: at an instruction the
\* values defined before it in its block are live, an instruction dominates
\* those behind it, values have no names and their id as slot, no
\* instruction hides a value; layout is, for every function, the order of
\* the addresses of its values that can be live.
StraightLineOracles(funcs, noLive, layout) ==
  LET insts(f) == Flatten(funcs[f].blocks)
      ids(f) == {insts(f)[k].id : k \in DOMAIN insts(f)}
      blockOf(f, id) == CHOOSE b \in DOMAIN funcs[f].blocks :
                          \E i \in DOMAIN funcs[f].blocks[b] : funcs[f].blocks[b][i].id = id
  IN [ Live |-> [f \in DOMAIN funcs |->
                   [id \in ids(f) |-> DefinedBefore(funcs[f].blocks[blockOf(f, id)], id)]],
       Dominates |-> [f \in DOMAIN funcs |-> {p \in ids(f) \X ids(f) : p[1] < p[2]}],
       Name |-> [f \in DOMAIN funcs |-> [v \in {InstValue(n) : n \in ids(f)} |-> <<>>]],
       Slot |-> [f \in DOMAIN funcs |-> [v \in {InstValue(n) : n \in ids(f)} |-> v.n]],
       NoLiveVals |-> noLive,
       Layout |-> layout,
       Buckets |-> [f \in DOMAIN funcs |-> <<>>] ]

\* ------------------------------------------------------------------------
\* Modules with named values and with instructions that hide values
\* ------------------------------------------------------------------------

\* Names of values as lists of character codes: "a", "aa" and "b".
ValueNames == { <<1>>, <<1, 1>>, <<2>> }

\* The values of the function below in the order the slot tracker numbers
\* them: its argument, then the instructions that have a result.
HidingValues == << ArgValue(1), InstValue(1), InstValue(2), InstValue(3) >>

\* The opcode of the third instruction: two that hide values, one that
\* does not.
ThirdOps == {"getelementptr", "bitcast", "add"}

\* The operands of the third instruction.
ThirdOperands ==
  { <<InstValue(1)>>, <<ArgValue(1)>>, <<InstValue(1), ArgValue(1)>>,
    <<InstValue(2), InstValue(1)>> }

\* define @f(%a) { %1 = add; %2 = add; %3 = op operands; call; br }
\* With side > 0 the last side of the three instructions lie in a block of
\* their own that the entry block can branch around:
\*   entry: ...; br side, join    side: ...; br join    join: call; br
HidingFunction(op, operands, side) ==
  LET body == << Inst("add", 1, <<>>), Inst("add", 2, <<>>), Inst(op, 3, operands) >>
      join == << Inst("call", 4, <<>>), Inst("br", 5, <<>>) >>
  IN IF side = 0 THEN [ blocks |-> << body \o join >> ]
     ELSE [ blocks |-> << SubSeq(body, 1, 3 - side) \o << Inst("br", 6, <<>>) >>,
                          SubSeq(body, 4 - side, 3) \o << Inst("br", 7, <<>>) >>,
                          join >> ]

\* The ways to name the values of the function: a symbol table holds no name
\* twice.
Namings ==
  { n \in [Range(HidingValues) -> ValueNames \cup {<<>>}] :
      \A v, w \in Range(HidingValues) : (v # w /\ n[v] = n[w]) => n[v] = <<>> }

\* SlotTracker::processFunction: the unnamed arguments, then block after
\* block the unnamed block and its unnamed instructions are numbered in this
\* order; a named value has no slot (-1). No block of HidingFunction has a
\* name.
SlotsOf(naming, side) ==
  [ v \in Range(HidingValues) |->
      IF naming[v] # <<>> THEN -1
      ELSE LET k == CHOOSE i \in DOMAIN HidingValues : HidingValues[i] = v
           IN Cardinality({i \in 1..(k - 1) : naming[HidingValues[i]] = <<>>})
              + (IF v.kind = "inst" THEN 1 ELSE 0)
              + (IF v.kind = "inst" /\ v.n > 3 - side THEN 1 ELSE 0) ]

\* Oracles of the module of one HidingFunction with side instructions in the
\* side block: live is the answer of the liveness analysis for the call; an
\* instruction dominates those behind it in its block, and the instructions
\* of the entry block dominate those of the other blocks, while those of
\* the side block do not dominate the call; layout is the order of the
\* addresses of the live values; instruction 3 is the only one whose entry
\* in the hiding maps can hold operands.
HidingOracles(naming, live, layout, side) ==
  LET blocks == HidingFunction("add", <<>>, side).blocks
      ids == {Flatten(blocks)[k].id : k \in DOMAIN Flatten(blocks)}
      at(id) == CHOOSE p \in {<<b, i>> : b \in DOMAIN blocks, i \in 1..5} :
                  p[2] \in DOMAIN blocks[p[1]] /\ blocks[p[1]][p[2]].id = id
  IN
  [ Live |-> << [id \in ids |-> IF id = 4 THEN live ELSE {}] >>,
    Dominates |-> << {p \in ids \X ids :
                        \/ at(p[1])[1] = at(p[2])[1] /\ at(p[1])[2] < at(p[2])[2]
                        \/ at(p[1])[1] = 1 /\ at(p[2])[1] > 1} >>,
    Name |-> << naming >>,
    Slot |-> << SlotsOf(naming, side) >>,
    NoLiveVals |-> FALSE,
    Layout |-> << layout >>,
    Buckets |-> << <<3>> >> ]

\* ------------------------------------------------------------------------
\* The function no analysis is asked about while a module is instrumented
\* ------------------------------------------------------------------------

NoFunction ==
  /\ F = ShapeSimple
  /\ EqPoints = {}
  /\ MaxNumPaths = LargeCeiling
  /\ FreshAnalysis

\* ------------------------------------------------------------------------
\* InsertStackMaps as a state machine
\* ------------------------------------------------------------------------

\* A module that calls the stack map intrinsic declares it.
HasStackMapCall(funcs) ==
  \E f \in DOMAIN funcs :
    \E k \in DOMAIN Flatten(funcs[f].blocks) : isStackMapCall(Flatten(funcs[f].blocks)[k])

\* createInsertStackMapsPass
NewPass == [callSiteID |-> 0, numInstrumented |-> 0]

InitStackMaps ==
  /\ Module \in {[funcs |-> funcs, hasSMDecl |-> decl]
                   : funcs \in InputModules, decl \in BOOLEAN}
  /\ HasStackMapCall(Module.funcs) => Module.hasSMDecl
  /\ Oracles \in {StraightLineOracles(Module.funcs, noLive, layout)
                    : noLive \in BOOLEAN, layout \in StraightLineLayouts(Module.funcs)}
  /\ Pass = NewPass
  /\ runs = <<>>
  /\ NoFunction

\* One function whose call site has every set of the values defined in
\* front of it as the answer of the liveness analysis, under every order of
\* the addresses of the live values. The function of one block is drawn
\* under every naming, the functions with a side block without names.
InitLiveValues ==
  /\ \E in \in {<<naming, 0>> : naming \in Namings}
                 \cup {<<[v \in Range(HidingValues) |-> <<>>], side>> : side \in 1..3} :
       /\ Module \in {[funcs |-> <<HidingFunction(op, operands, in[2])>>, hasSMDecl |-> FALSE]
                        : op \in ThirdOps, operands \in ThirdOperands}
       /\ Oracles \in {HidingOracles(in[1], at[1], at[2], in[2])
                         : at \in UNION { {<<live, layout>> : layout \in AddressOrders(live)}
                                           : live \in SUBSET Range(HidingValues) }}
  /\ Pass = NewPass
  /\ runs = <<>>
  /\ NoFunction

\* The pass manager runs the pass on the module.
RunOnModule ==
  /\ Len(runs) < MaxRuns
  /\ LET R == runOnModule(Module, Pass)
     IN /\ Module' = R.Module
        /\ Pass' = R.Pass
        /\ runs' = Append(runs, [modified |-> R.modified, input |-> Module,
                                 before |-> Pass, swept |-> R.swept,
                                 funcs |-> R.Module.funcs, after |-> R.Pass])
  /\ UNCHANGED Oracles
  /\ UNCHANGED pathVars

\* A new pass object is created for the next run.
CreatePass ==
  /\ runs # <<>>
  /\ Pass # NewPass
  /\ Pass' = NewPass
  /\ UNCHANGED << Module, Oracles, runs >>
  /\ UNCHANGED pathVars

\* A module that declares the stack map intrinsic and has one function
\* without call sites: define @g() { br }
IdleModule ==
  [funcs |-> << [blocks |-> << << Inst("br", 1, <<>>) >> >>] >>, hasSMDecl |-> TRUE]

\* The pass manager is run on another module with the same pass object
\* (legacy::PassManager::run); the runs on the earlier module are forgotten.
NextModule ==
  /\ runs # <<>>
  /\ Module # IdleModule
  /\ Module' = IdleModule
  /\ Oracles' = StraightLineOracles(IdleModule.funcs, Oracles.NoLiveVals, << <<>> >>)
  /\ runs' = <<>>
  /\ UNCHANGED Pass
  /\ UNCHANGED pathVars

vars == << pathVars, smVars >>

NextPaths == RunOnFunction \/ RerunOnLoop

Spec == InitPaths /\ [][NextPaths]_vars

NextQueries ==
  \/ RunOnFunction
  \/ RerunOnLoop
  \/ GetPaths
  \/ GetBackedgePaths
  \/ GetSpanningPaths
  \/ GetEqPointPaths
  \/ GetPathsThroughBlock
  \/ SpanningPathThroughBlock
  \/ EqPointPathThroughBlock

SpecQueries == InitQueries /\ [][NextQueries]_vars

NextStackMaps == RunOnModule \/ CreatePass \/ NextModule

SpecStackMaps == InitStackMaps /\ [][NextStackMaps]_vars

\* The pass manager runs the pass once on the function with hidden values.
NextLiveValues == runs = <<>> /\ RunOnModule

SpecLiveValues == InitLiveValues /\ [][NextLiveValues]_vars

\* ------------------------------------------------------------------------
\* Properties of the loop path enumerator
\* ------------------------------------------------------------------------

\* The loops whose analysis has completed and whose results are held.
Analyzed == history.analyzed

\* The paths held for loop L.
PathsOf(L) == Range(Paths[L])

NodeBlocks(P) == {P.Nodes[i].Block : i \in DOMAIN P.Nodes}

\* The blocks of a path that are no opaque sub-loop blocks.
OwnBlocks(P) ==
  {P.Nodes[i].Block : i \in {j \in DOMAIN P.Nodes : ~P.Nodes[j].SubLoopExit}}

LastNode(P) == P.Nodes[Len(P.Nodes)]

\* Map[L][b] is stored and true.
SummaryTrue(Map, L, b) == L \in DOMAIN Map /\ b \in DOMAIN Map[L] /\ Map[L][b]

\* The path ends at an equivalence point of a block of the loop itself.
EndsAtMigrationPoint(P) ==
  ~P.EndsAtBackedge /\ isEquivalencePoint(P.End) /\ ~LastNode(P).SubLoopExit

\* The path was cut at the terminator of its final block in front of a
\* sub-loop of L.
CutBeforeSubLoop(L, P) ==
  /\ ~P.EndsAtBackedge
  /\ P.End = getTerminator(LastNode(P).Block)
  /\ \E s \in SuccSet(F, LastNode(P).Block) : s \in getSubBlocks(L)

\* The operation at which a path enters its i-th block.
EntryOf(P, i) == IF i = 1 THEN P.Start ELSE front(P.Nodes[i].Block)

\* No block is the block of two nodes of the list Nodes.
NoBlockTwice(Nodes) ==
  \A j, k \in DOMAIN Nodes : j # k => Nodes[j].Block # Nodes[k].Block

\* C1: no path recorded for any loop holds a block twice, header-started or
\* point-started, opaque sub-loop exits included: neither the paths the
\* analysis holds nor the node lists loopDFS recorded a path from during
\* the last call.
C1_NoBlockTwice ==
  /\ \A L \in DOMAIN Paths : \A P \in PathsOf(L) : NoBlockTwice(P.Nodes)
  /\ \A Nodes \in history.recorded : NoBlockTwice(Nodes)

\* A path of three or more nodes that runs through a sub-loop exit is held.
C1_Witness ==
  \E L \in DOMAIN Paths : \E P \in PathsOf(L) :
    /\ Len(P.Nodes) >= 3
    /\ \E j \in DOMAIN P.Nodes : P.Nodes[j].SubLoopExit
    /\ \E Nodes \in history.recorded : Nodes = P.Nodes

\* C2: when the search of a loop reaches a block that is already on the
\* path, runOnFunction ends with the analysis marked failed and with no
\* paths and no summaries for any loop of the function.
C2_CycleDiscardsAll ==
  (history.call = "runOnFunction" /\ DetectedCycle) =>
    /\ analysisFailed(Object)
    /\ DOMAIN Paths = {}
    /\ DOMAIN HasSpPath = {}
    /\ DOMAIN HasEqPointPath = {}

\* runOnFunction found a cycle in the second top-level loop, after the
\* analysis of the first one had completed.
C2_Witness ==
  /\ history.call = "runOnFunction"
  /\ DetectedCycle
  /\ Len(history.order) >= 2
  /\ LI.Parent[history.order[1]] = None
  /\ LI.Parent[history.order[Len(history.order)]] = None
  /\ DOMAIN Paths = {}

\* C3: no loop ever reports more paths than max-num-paths, and when
\* runOnFunction exceeds the ceiling no loop of the function reports a path.
C3_CeilingDiscardsAll ==
  /\ \A L \in DOMAIN Paths : Len(Paths[L]) <= MaxNumPaths
  /\ (history.call = "runOnFunction" /\ TooManyPaths) => DOMAIN Paths = {}

\* runOnFunction exceeded the ceiling in a loop analysed after another one.
C3_Witness ==
  /\ history.call = "runOnFunction"
  /\ TooManyPaths
  /\ ~DetectedCycle
  /\ Len(history.order) >= 2
  /\ DOMAIN Paths = {}

\* C4 as claimed: for every member block b of an analysed loop L,
\* hasSpanningPath[L][b] is true iff some header-started path of L that ends
\* at a backedge passes through b.
C4_Claimed ==
  \A L \in Analyzed : \A b \in LI.Blocks[L] :
    SummaryTrue(HasSpPath, L, b)
      <=> \E P \in PathsOf(L) : isSpanningPath(P) /\ b \in NodeBlocks(P)

\* C4 as amended: the equivalence holds for the member blocks of L that
\* belong to no sub-loop of L; for the blocks of sub-loops the flag is never
\* true.
C4_SpanningSummary ==
  \A L \in Analyzed : \A b \in LI.Blocks[L] :
    SummaryTrue(HasSpPath, L, b)
      <=> /\ b \notin getSubBlocks(L)
          /\ \E P \in PathsOf(L) : isSpanningPath(P) /\ b \in NodeBlocks(P)

\* A spanning path runs through a sub-loop exit and marks its own blocks.
C4_Witness ==
  \E L \in Analyzed : \E P \in PathsOf(L) :
    /\ isSpanningPath(P)
    /\ \E j \in DOMAIN P.Nodes : P.Nodes[j].SubLoopExit
    /\ \A b \in OwnBlocks(P) : SummaryTrue(HasSpPath, L, b)

\* C5 as claimed: for every member block b of an analysed loop L,
\* hasEqPointPath[L][b] is true iff some path of L through b ends at a
\* migration point (endsAtBackedge = false).
C5_Claimed ==
  \A L \in Analyzed : \A b \in LI.Blocks[L] :
    SummaryTrue(HasEqPointPath, L, b)
      <=> \E P \in PathsOf(L) : ~P.EndsAtBackedge /\ b \in NodeBlocks(P)

\* C5 as amended: hasEqPointPath[L][b] is true iff b is a block of L outside
\* its sub-loops on some path of L that ends at a migration point of a block
\* of L itself, or that is point-started and ends at a backedge.
C5_EqPointSummary ==
  \A L \in Analyzed : \A b \in LI.Blocks[L] :
    SummaryTrue(HasEqPointPath, L, b)
      <=> \E P \in PathsOf(L) :
            /\ b \in OwnBlocks(P)
            /\ \/ EndsAtMigrationPoint(P)
               \/ ~P.StartsAtHeader /\ P.EndsAtBackedge

\* A point-started path that ends at a backedge has marked its blocks.
C5_Witness ==
  \E L \in Analyzed : \E P \in PathsOf(L) :
    /\ ~P.StartsAtHeader /\ P.EndsAtBackedge
    /\ \A b \in OwnBlocks(P) : SummaryTrue(HasEqPointPath, L, b)
    /\ \E Q \in PathsOf(L) : EndsAtMigrationPoint(Q)

\* C6 as claimed: a path with endsAtBackedge ends in a latch of its loop, a
\* path without it ends in a block holding a migration point, which is the
\* end operation of the path.
C6_Claimed ==
  \A L \in DOMAIN Paths : \A P \in PathsOf(L) :
    /\ P.EndsAtBackedge => LastNode(P).Block \in getLoopLatches(F, LI, L)
    /\ ~P.EndsAtBackedge =>
         isEquivalencePoint(P.End) /\ getParent(P.End) = LastNode(P).Block

\* C6 as amended: a path without endsAtBackedge ends at a migration point
\* of its final block, or at the terminator of its final block when a
\* successor of that block belongs to a sub-loop.
C6_PathEnds ==
  \A L \in DOMAIN Paths : \A P \in PathsOf(L) :
    /\ P.EndsAtBackedge =>
         /\ LastNode(P).Block \in getLoopLatches(F, LI, L)
         /\ P.End = getTerminator(LastNode(P).Block)
    /\ ~P.EndsAtBackedge =>
         /\ getParent(P.End) = LastNode(P).Block
         /\ isEquivalencePoint(P.End) \/ CutBeforeSubLoop(L, P)

\* Paths of all three kinds are held for one loop: at a latch, at a
\* migration point, and cut at a terminator that is no migration point.
C6_Witness ==
  \E L \in DOMAIN Paths :
    /\ \E P \in PathsOf(L) : P.EndsAtBackedge
    /\ \E P \in PathsOf(L) : EndsAtMigrationPoint(P)
    /\ \E P \in PathsOf(L) : CutBeforeSubLoop(L, P) /\ ~isEquivalencePoint(P.End)

\* C7: a spanning path passes no migration point: no block of the loop
\* itself on the path holds one at or after the operation the path enters
\* the block at.
C7_SpanningPassesNoMigrationPoint ==
  \A L \in DOMAIN Paths : \A P \in PathsOf(L) :
    isSpanningPath(P) =>
      \A i \in DOMAIN P.Nodes :
        ~P.Nodes[i].SubLoopExit => hasEquivalencePoint(EntryOf(P, i)) = NoInst

\* C8: runOnFunction analyses every loop after all of its child loops, and
\* getSubLoopSuccessors reads no summary of a loop not yet analysed.
C8_ChildrenFirst ==
  history.call = "runOnFunction" =>
    /\ history.earlyReads = {}
    /\ \A i \in DOMAIN history.order :
         \A c \in Range(getSubLoops(LI, history.order[i])) :
           \E j \in 1..(i - 1) : history.order[j] = c

QueryOps == { "getPaths", "getBackedgePaths", "getSpanningPaths", "getEqPointPaths",
              "getPathsThroughBlock", "spanningPathThroughBlock",
              "eqPointPathThroughBlock" }

\* C9: a query on a loop without results (never analysed, or discarded by
\* an aborted analysis) fails its assertion.
C9_QueryWithoutResultsFails ==
  (lastCall.op \in QueryOps /\ lastCall.L \notin Analyzed) =>
    lastCall.outcome = "assert"

\* A query made after rerunOnLoop aborted has failed its assertion.
C9_Witness ==
  /\ lastCall.op = "getEqPointPaths"
  /\ lastCall.outcome = "assert"
  /\ history.call = "rerunOnLoop"
  /\ ~history.ok

\* ------------------------------------------------------------------------
\* Properties of the stack map insertion
\* ------------------------------------------------------------------------

IndexSeq(n) == [i \in 1..n |-> i]

\* The stack map calls of a block in order: the instruction each one
\* follows, its site id and its live values.
MarkersOfBlock(bb) ==
  LET at == SelectSeq(IndexSeq(Len(bb)), LAMBDA i : isStackMapCall(bb[i]))
  IN [k \in DOMAIN at |->
        [ after |-> IF at[k] = 1 THEN None ELSE bb[at[k] - 1].id,
          site  |-> bb[at[k]].site,
          live  |-> bb[at[k]].vals ]]

\* The stack map calls of a module, function by function and block by block.
MarkersOf(funcs) ==
  [f \in DOMAIN funcs |->
     [b \in DOMAIN funcs[f].blocks |-> MarkersOfBlock(funcs[f].blocks[b])]]

\* The instructions of a block that are no stack map calls, in order.
Originals(bb) == SelectSeq(bb, LAMBDA I : ~isStackMapCall(I))

\* The stack map calls of a block that a run has inserted.
Inserted(bb) == SelectSeq(bb, LAMBDA I : isStackMapCall(I) /\ I.id = 0)

\* The blocks of a module: pairs of a function and a block index.
BlocksIn(funcs) ==
  UNION { {<<f, b>> : b \in DOMAIN funcs[f].blocks} : f \in DOMAIN funcs }

\* C10: a second run of the pass on the output of a first run leaves the
\* same stack map calls as the first run did: as many, behind the same call
\* sites, with the same site ids and the same live values.
C10_SecondRunSameMarkers ==
  Len(runs) >= 2 => MarkersOf(runs[2].funcs) = MarkersOf(runs[1].funcs)

\* C11: after removeOldStackmaps no block of any function holds a call of
\* the stack map intrinsic, wherever the calls stood in the blocks of the
\* input, and the other instructions are kept in their order.
C11_CleanupRemovesAll ==
  \A r \in DOMAIN runs :
    /\ DOMAIN runs[r].swept = DOMAIN runs[r].input.funcs
    /\ \A p \in BlocksIn(runs[r].input.funcs) :
         LET old == runs[r].input.funcs[p[1]].blocks[p[2]]
             new == runs[r].swept[p[1]].blocks[p[2]]
         IN /\ \A i \in DOMAIN new : ~isStackMapCall(new[i])
            /\ new = Originals(old)

\* The call sites a run has instrumented: function, block and index of the
\* call in the module the run has left.
SitesOf(funcs) ==
  { s \in UNION { {<<p[1], p[2], i>> : i \in DOMAIN funcs[p[1]].blocks[p[2]]}
                  : p \in BlocksIn(funcs) } :
      funcs[s[1]].blocks[s[2]][s[3]].op = "call" }

\* The instruction at a site and the one behind it.
CallAt(funcs, s) == funcs[s[1]].blocks[s[2]][s[3]]

MarkerAt(funcs, s) == funcs[s[1]].blocks[s[2]][s[3] + 1]

\* The instructions of function f that hide values and whose result is live
\* across the call c.
LiveHiders(funcs, f, c) ==
  LET insts == Flatten(funcs[f].blocks)
  IN { insts[k] : k \in { j \in DOMAIN insts :
                            /\ hidesValues(insts[j])
                            /\ InstValue(insts[j].id) \in Oracles.Live[f][c.id] } }

C13_ExactlyTheLiveSet ==
  \A r \in DOMAIN runs : \A s \in SitesOf(runs[r].funcs) :
    LET c == CallAt(runs[r].funcs, s)
        m == MarkerAt(runs[r].funcs, s)
    IN LiveHiders(runs[r].funcs, s[1], c) = {} =>
         /\ Range(m.vals) = Oracles.Live[s[1]][c.id]
         /\ Len(m.vals) = Cardinality(Oracles.Live[s[1]][c.id])

\* A run has recorded four live values, two of them named, with no hiding
\* instruction among them.
C13_Witness ==
  /\ runs # <<>>
  /\ \E s \in SitesOf(runs[1].funcs) :
       LET c == CallAt(runs[1].funcs, s)
           m == MarkerAt(runs[1].funcs, s)
       IN /\ LiveHiders(runs[1].funcs, s[1], c) = {}
          /\ Len(m.vals) = 4
          /\ Cardinality({v \in Range(m.vals) : hasName(s[1], v)}) = 2

\* The lists that hold every value of V once.
Orderings(V) == {q \in [1..Cardinality(V) -> V] : Range(q) = V}

\* Named values first in the order of their names, then the unnamed ones by
\* ascending slot.
NamesThenSlots(f, L) ==
  \A i, j \in DOMAIN L : i < j =>
    IF hasName(f, L[i]) /\ hasName(f, L[j]) THEN NameLess(getName(f, L[i]), getName(f, L[j]))
    ELSE IF hasName(f, L[i]) THEN TRUE
    ELSE IF hasName(f, L[j]) THEN FALSE
    ELSE getLocalSlot(f, L[i]) < getLocalSlot(f, L[j])

\* C14: the list of a marker has its named values first, in the lexical
\* order of their names, then the unnamed ones by ascending slot, and
\* inserting its values in any order gives this list.
C14_OrderOfTheSetAlone ==
  \A r \in DOMAIN runs : \A s \in SitesOf(runs[r].funcs) :
    LET m == MarkerAt(runs[r].funcs, s)
    IN /\ NamesThenSlots(s[1], m.vals)
       /\ \A q \in Orderings(Range(m.vals)) : sortedInsertAll(s[1], <<>>, q) = m.vals

\* A run has recorded the names "a", "aa" and "b" in front of an unnamed
\* value although the argument named "b" lies between the instructions in
\* memory and instruction 3 lies in front of instruction 1.
C14_Witness ==
  /\ runs # <<>>
  /\ \E s \in SitesOf(runs[1].funcs) :
       LET m == MarkerAt(runs[1].funcs, s)
       IN /\ Len(m.vals) = 4
          /\ getName(s[1], m.vals[1]) = <<1>>
          /\ getName(s[1], m.vals[2]) = <<1, 1>>
          /\ m.vals[3] = ArgValue(1) /\ getName(s[1], ArgValue(1)) = <<2>>
          /\ ~hasName(s[1], m.vals[4])
          /\ Oracles.Layout[s[1]] = <<InstValue(3), ArgValue(1), InstValue(2), InstValue(1)>>

\* The number of instructions of a list that satisfy op = name.
CountOp(insts, name) == Len(SelectSeq(insts, LAMBDA I : I.op = name))

\* C15: the markers a run has inserted into a function carry the site
\* identifiers 0, 1, ... in the order of the scan, one for every call that
\* is no invoke, and the counter of the pass object is 0 after the run.
C15_SiteIdentifiers ==
  \A r \in DOMAIN runs :
    /\ runs[r].after.callSiteID = 0
    /\ \A f \in DOMAIN runs[r].funcs :
         LET insts == Flatten(runs[r].funcs[f].blocks)
             ms == Inserted(insts)
         IN /\ Len(ms) = CountOp(insts, "call")
            /\ \A k \in DOMAIN ms : ms[k].site = k - 1

\* A run has numbered the calls of two blocks 0 and 1 although the first
\* block ends with an invoke, and has started at 0 again in a later function.
C15_Witness ==
  /\ runs # <<>>
  /\ \/ \E f \in DOMAIN runs[1].funcs :
          /\ Len(runs[1].funcs[f].blocks) = 2
          /\ runs[1].funcs[f].blocks[1][Len(runs[1].funcs[f].blocks[1])].op = "invoke"
          /\ Len(Inserted(runs[1].funcs[f].blocks[1])) = 1
          /\ Len(Inserted(runs[1].funcs[f].blocks[2])) = 1
          /\ Inserted(runs[1].funcs[f].blocks[2])[1].site = 1
     \/ /\ Len(runs[1].funcs) = 3
        /\ Len(Inserted(Flatten(runs[1].funcs[2].blocks))) = 2
        /\ Len(Inserted(Flatten(runs[1].funcs[3].blocks))) = 1

\* C16: every call that is no invoke is followed in its block by one marker
\* the run has inserted, whose flag is 0, and a block holds no other
\* inserted marker.
C16_OneMarkerBehindTheCall ==
  \A r \in DOMAIN runs : \A p \in BlocksIn(runs[r].funcs) :
    LET bb == runs[r].funcs[p[1]].blocks[p[2]]
    IN /\ Len(Inserted(bb)) = CountOp(bb, "call")
       /\ \A i \in DOMAIN bb : bb[i].op = "call" =>
            /\ i < Len(bb)
            /\ isStackMapCall(bb[i + 1]) /\ bb[i + 1].id = 0
            /\ bb[i + 1].flags = 0

\* A run has instrumented two calls that follow each other.
C16_Witness ==
  /\ runs # <<>>
  /\ \E p \in BlocksIn(runs[1].funcs) :
       LET bb == runs[1].funcs[p[1]].blocks[p[2]]
       IN /\ Len(bb) >= 5
          /\ bb[1].op = "call" /\ isStackMapCall(bb[2])
          /\ bb[3].op = "call" /\ isStackMapCall(bb[4])
          /\ bb[2].site = 0 /\ bb[4].site = 1

\* C17: an invoke is the last instruction of its block after the run as it
\* was before, so no marker follows it, and the run has inserted as many
\* markers as the module has calls that are no invokes.
C17_InvokeNotInstrumented ==
  \A r \in DOMAIN runs :
    /\ \A p \in BlocksIn(runs[r].funcs) :
         LET bb == runs[r].funcs[p[1]].blocks[p[2]]
         IN \A i \in DOMAIN bb : bb[i].op = "invoke" => i = Len(bb)
    /\ runs[r].after.numInstrumented - runs[r].before.numInstrumented
         = Sum([f \in DOMAIN runs[r].funcs |->
                  CountOp(Flatten(runs[r].funcs[f].blocks), "call")])

\* A run has passed an invoke and instrumented a call of a later block of
\* the same function.
C17_Witness ==
  /\ runs # <<>>
  /\ \E f \in DOMAIN runs[1].funcs :
       /\ Len(runs[1].funcs[f].blocks) = 2
       /\ runs[1].funcs[f].blocks[1][Len(runs[1].funcs[f].blocks[1])].op = "invoke"
       /\ Len(Inserted(runs[1].funcs[f].blocks[1])) = 0
       /\ Len(Inserted(runs[1].funcs[f].blocks[2])) = 1

\* The markers run r has inserted.
InsertedBy(r) == runs[r].after.numInstrumented - runs[r].before.numInstrumented

\* C18: a run returns true if and only if it has inserted at least one
\* marker.
C18_Claimed ==
  \A r \in DOMAIN runs : runs[r].modified <=> InsertedBy(r) > 0

\* A run on a module it has left as it was has returned true because the
\* pass object had inserted markers into another module.
C18_Witness ==
  /\ runs # <<>>
  /\ runs[1].modified
  /\ InsertedBy(1) = 0
  /\ runs[1].input.hasSMDecl
  /\ runs[1].funcs = runs[1].input.funcs
  /\ runs[1].before.numInstrumented > 0

\* C19: a run leaves the functions and their blocks in place, every block
\* ends with the terminator it had (the terminator holds the successor
\* edges), and the instructions of a block that are no stack map calls are
\* the same, in the same order, as before the run.
C19_ControlFlowUnchanged ==
  \A r \in DOMAIN runs :
    /\ DOMAIN runs[r].funcs = DOMAIN runs[r].input.funcs
    /\ \A f \in DOMAIN runs[r].funcs :
         DOMAIN runs[r].funcs[f].blocks = DOMAIN runs[r].input.funcs[f].blocks
    /\ \A p \in BlocksIn(runs[r].input.funcs) :
         LET old == runs[r].input.funcs[p[1]].blocks[p[2]]
             new == runs[r].funcs[p[1]].blocks[p[2]]
         IN /\ Originals(new) = Originals(old)
            /\ new[Len(new)] = old[Len(old)]

\* A run has removed a marker between two instructions of a block and has
\* inserted one behind a call of that block.
C19_Witness ==
  /\ runs # <<>>
  /\ \E p \in BlocksIn(runs[1].input.funcs) :
       LET old == runs[1].input.funcs[p[1]].blocks[p[2]]
           new == runs[1].funcs[p[1]].blocks[p[2]]
       IN /\ Len(old) = 4
          /\ old[1].op = "add" /\ isStackMapCall(old[2]) /\ old[3].op = "call"
          /\ Len(new) = 4
          /\ new[2].op = "call" /\ isStackMapCall(new[3])

\* The blocks a summary map of one loop holds as true.
Marked(m) == {b \in DOMAIN m : m[b]}

\* C20: rerunOnLoop(L) on a loop that has been analysed, the summaries of
\* the loops inside it being those its analysis has read, leaves L with the
\* same list of paths and the same blocks marked in both summaries; a rerun
\* that aborts leaves no loop with results.
C20_RerunReproduces ==
  /\ (history.call = "rerunOnLoop" /\ history.prev.known) =>
       /\ history.ok
       /\ Paths[lastCall.L] = history.prev.Paths
       /\ Marked(HasSpPath[lastCall.L]) = Marked(history.prev.HasSpPath)
       /\ Marked(HasEqPointPath[lastCall.L]) = Marked(history.prev.HasEqPointPath)
  /\ (history.call = "rerunOnLoop" /\ ~history.ok) =>
       /\ DOMAIN Paths = {}
       /\ DOMAIN HasSpPath = {}
       /\ DOMAIN HasEqPointPath = {}

\* A rerun has reproduced two paths and a marked block of a loop that has a
\* loop inside it.
C20_Witness ==
  /\ history.call = "rerunOnLoop"
  /\ history.prev.known
  /\ history.ok
  /\ DOMAIN history.basis[lastCall.L] # {}
  /\ Len(Paths[lastCall.L]) >= 2
  /\ Paths[lastCall.L] = history.prev.Paths
  /\ Marked(HasSpPath[lastCall.L]) # {}

\* The steps of the searches of the last analysis call.
Events(kind) == {e \in history.events : e.ev = kind}

\* The starts enqueued for the path that ended at the equivalence point of e.
StartsAfter(e) ==
  {p.start : p \in {q \in Events("push") : q.loop = e.loop /\ q.from = e.at}}

\* C21 as claimed: after a path has ended at a terminator, the starts
\* enqueued are the first instructions of the successors in the loop that
\* are neither its header nor a latch.
C21_Claimed ==
  history.ok =>
    \A e \in Events("eqEnd") :
      StartsAfter(e) =
        IF ~isTerminator(e.at) THEN {getNextNode(e.at)}
        ELSE {front(s) : s \in {t \in SuccSet(F, getParent(e.at)) :
                                  /\ contains(LI, e.loop, t)
                                  /\ t # getHeader(e.loop)
                                  /\ t \notin getLoopLatches(F, LI, e.loop)}}

\* C21: after a path has ended at an equivalence point that is no
\* terminator the start enqueued is the instruction behind it; after one that
\* is a terminator the starts enqueued are the first instructions of the
\* successors that are blocks of the loop itself (of none of its sub-loops)
\* and not its header, latches among them.
C21_NewStarts ==
  history.ok =>
    \A e \in Events("eqEnd") :
      StartsAfter(e) =
        IF ~isTerminator(e.at) THEN {getNextNode(e.at)}
        ELSE {front(s) : s \in {t \in SuccSet(F, getParent(e.at)) :
                                  /\ contains(LI, e.loop, t)
                                  /\ t # getHeader(e.loop)
                                  /\ t \notin getSubBlocks(e.loop)}}

\* An analysis has ended one path inside a block and another at a
\* terminator whose successor, a latch, it has enqueued.
C21_Witness ==
  /\ history.ok
  /\ \E e \in Events("eqEnd") : ~isTerminator(e.at)
  /\ \E e \in Events("eqEnd") :
       /\ isTerminator(e.at)
       /\ \E s \in getLoopLatches(F, LI, e.loop) : front(s) \in StartsAfter(e)

\* The loops the last call has analysed.
LoopsOfCall == Range(history.order)

\* C22: when the search in a loop meets a successor inside a sub-loop, the
\* exits it takes are the exiting blocks the sub-loop's summaries flag; for
\* an exit flagged hasEqPointPath the loop has a path that ends in front of
\* the sub-loop, at the terminator of the block the search is in, not at a
\* backedge, and the terminator of the exit is enqueued; for an exit flagged
\* hasSpanningPath the search goes on with the exit block as an opaque node
\* behind the path; a path holds no other block of a sub-loop.
C22_SubLoopsThroughSummaries ==
  history.ok =>
    /\ \A e \in Events("sub") :
         /\ {getParent(x) : x \in Range(e.eqExits)} = e.flagged[1]
         /\ {getParent(x) : x \in Range(e.spExits)} = e.flagged[2]
         /\ \A x \in Range(e.eqExits) :
              /\ \E p \in Events("pushExit") :
                   p.loop = e.loop /\ p.BB = e.BB /\ p.start = x
              /\ \E P \in PathsOf(e.loop) :
                   /\ P.End = getTerminator(e.BB)
                   /\ ~P.EndsAtBackedge
                   /\ P.Start = e.start
                   /\ P.Nodes = e.nodes
         /\ \A x \in Range(e.spExits) :
              \E o \in Events("opaque") :
                /\ o.loop = e.loop /\ o.I = x
                /\ o.nodes = Append(e.nodes, PathNode(getParent(x), TRUE))
    /\ \A L \in LoopsOfCall : \A P \in PathsOf(L) : \A i \in DOMAIN P.Nodes :
         LET n == P.Nodes[i]
         IN IF n.Block \in getSubBlocks(L)
            THEN /\ n.SubLoopExit
                 /\ \E e \in Events("sub") :
                      /\ e.loop = L
                      /\ getTerminator(n.Block) \in Range(e.eqExits) \cup Range(e.spExits)
            ELSE ~n.SubLoopExit

\* An analysis has met, from a block of the loop, a sub-loop with an exit
\* flagged hasEqPointPath, and has a path of more than one node through an
\* opaque node.
C22_Witness ==
  /\ history.ok
  /\ \E e \in Events("sub") : e.kind = "body" /\ e.eqExits # <<>>
  /\ \E L \in LoopsOfCall : \E P \in PathsOf(L) :
       /\ Len(P.Nodes) >= 2
       /\ \E i \in DOMAIN P.Nodes : P.Nodes[i].SubLoopExit

\* The blocks of a node vector that are no opaque nodes, and those that are.
PlainBlocks(nodes) == {nodes[i].Block : i \in {j \in DOMAIN nodes : ~nodes[j].SubLoopExit}}
OpaqueBlocks(nodes) == {nodes[i].Block : i \in {j \in DOMAIN nodes : nodes[j].SubLoopExit}}

\* C23: when a path ends at a latch, a header-started path sets
\* hasSpanningPath to true for every non-opaque block on it and leaves
\* hasEqPointPath as it is, a point-started path sets hasEqPointPath to true
\* for every non-opaque block on it and leaves hasSpanningPath as it is; an
\* opaque block on the path is not marked, and after the analysis no block
\* of a sub-loop is marked in the loop's own summaries.
C23_MarkingAtLatch ==
  /\ \A e \in Events("latch") :
       LET set == IF e.header THEN 1 ELSE 2
           other == IF e.header THEN 2 ELSE 1
       IN /\ PlainBlocks(e.nodes) \subseteq Marked(e.after[set])
          /\ e.after[other] = e.before[other]
          /\ \A b \in DOMAIN e.after[set] \ PlainBlocks(e.nodes) :
               /\ b \in DOMAIN e.before[set]
               /\ e.after[set][b] = e.before[set][b]
          /\ OpaqueBlocks(e.nodes) \cap PlainBlocks(e.nodes) = {}
  /\ history.ok =>
       \A L \in LoopsOfCall :
         (Marked(HasSpPath[L]) \cup Marked(HasEqPointPath[L])) \cap getSubBlocks(L) = {}

\* A header-started and a point-started path have ended at a latch, one of
\* them through an opaque node.
C23_Witness ==
  /\ history.ok
  /\ \E e \in Events("latch") : e.header /\ PlainBlocks(e.nodes) # {}
  /\ \E e \in Events("latch") : ~e.header /\ PlainBlocks(e.nodes) # {}
  /\ \E e \in Events("latch") : OpaqueBlocks(e.nodes) # {}

RECURSIVE ForwardReach(_, _)
\* The blocks reachable from the blocks of S over edges that are no back edges.
ForwardReach(succ, S) ==
  LET N == S \cup {s \in UNION {SuccSet(succ, b) : b \in S} :
                     \E b \in S : s \in SuccSet(succ, b)
                                   /\ b \notin BackEdgeSources(succ, s)}
  IN IF N = S THEN S ELSE ForwardReach(succ, N)

\* A control-flow graph is reducible when every cycle goes through a back
\* edge, an edge into a block that dominates its source: then every loop is
\* entered through its header only.
Reducible(succ) ==
  \A b \in Reachable(succ) :
    b \notin ForwardReach(succ, {s \in SuccSet(succ, b) : b \notin BackEdgeSources(succ, s)})

\* C24: for a reducible control-flow graph no analysis of the function
\* (runOnFunction, or rerunOnLoop with the summaries of the sub-loops
\* computed) sets DetectedCycle.
C24_CycleOnlyIfIrreducible ==
  Reducible(F) => ~DetectedCycle

\* C25: within one analysis of a loop that succeeds, no start instruction is
\* searched twice.
C25_EachStartSearchedOnce ==
  history.ok =>
    \A L \in DOMAIN history.searched :
      \A i, j \in DOMAIN history.searched[L] :
        history.searched[L][i] = history.searched[L][j] => i = j

\* C26: whenever the analysis is marked failed (TooManyPaths or
\* DetectedCycle), no loop has paths or summary entries.
C26_FailedMeansNoResults ==
  (TooManyPaths \/ DetectedCycle) =>
    /\ Paths = EmptyMap
    /\ HasSpPath = EmptyMap
    /\ HasEqPointPath = EmptyMap

\* C27: a successful analysis of a loop L leaves the path list and the two
\* summaries of every other loop as they were.
C27_OnlyOwnResultsChange ==
  \A e \in Events("analysed") : e.after = e.before

\* The same for the paths and for the blocks the summaries hold as true.
C27_TrueBlocksKept ==
  \A e \in Events("analysed") :
    /\ e.after[1] = e.before[1]
    /\ \A i \in {2, 3} : \A k \in DOMAIN e.after[i] :
         Marked(e.after[i][k]) = IF k \in DOMAIN e.before[i]
                                 THEN Marked(e.before[i][k]) ELSE {}

\* The number of paths the last analysis of L has recorded, discarded ones
\* included.
PathsRecorded(L) == Cardinality({e \in Events("path") : e.loop = L})

\* C28: analyzeLoop terminates. Every analysis records at most
\* max-num-paths + 1 paths, and it runs at most one search for the header
\* and, for every recorded path, one for each block of the function: a start
\* is queued only behind a recorded path, so it is re-enqueued finitely often
\* and the queue runs empty or the analysis aborts.
C28_AnalysisTerminates ==
  \A L \in DOMAIN history.searched :
    /\ PathsRecorded(L) <= MaxNumPaths + 1
    /\ Len(history.searched[L]) <= 1 + PathsRecorded(L) * Len(F)
    /\ (L \in history.analyzed \/ TooManyPaths \/ DetectedCycle)

\* An analysis with the large ceiling has searched one start twice and was
\* ended by the ceiling.
C28_Witness ==
  /\ TooManyPaths
  /\ MaxNumPaths = LargeCeiling
  /\ \E L \in DOMAIN history.searched :
       /\ PathsRecorded(L) = MaxNumPaths + 1
       /\ \E i, j \in DOMAIN history.searched[L] :
            i # j /\ history.searched[L][i] = history.searched[L][j]

\* C29: after a successful analysis of loop L, spanningPathThroughBlock and
\* eqPointPathThroughBlock return a stored boolean for every block of L: the
\* lookup never runs into a missing entry.
C29_SummaryQueriesDefined ==
  ( /\ lastCall.op \in {"spanningPathThroughBlock", "eqPointPathThroughBlock"}
    /\ lastCall.L \in history.analyzed
    /\ hasPaths(Paths, lastCall.L)
    /\ contains(LI, lastCall.L, lastCall.BB) )
  => lastCall.outcome # "undefined"

\* C30: after a runOnFunction that succeeds every loop of the function has
\* a path list that is not empty and holds a path that ends at a backedge.
C30_EveryLoopHasBackedgePath ==
  (history.call = "runOnFunction" /\ history.ok) =>
    \A L \in LI.Loops :
      /\ hasPaths(Paths, L)
      /\ Paths[L] # <<>>
      /\ \E P \in PathsOf(L) : P.EndsAtBackedge

====
